---- MODULE Spec2Model ----
(***************************************************************************)
(* Double-dummy bridge solver: the MTD(f) driver of bridge_solver.rs over  *)
(* the null-window alpha-beta search of search.rs, with the cutoff cache   *)
(* (search.rs) and the pattern cache (pattern.rs).                         *)
(*                                                                         *)
(* A Cards bitboard is modelled as the set of its bit indices 0..51: bit   *)
(* suit*13 + (12 - rank), so the smallest index of a suit is its highest   *)
(* rank.  Hands is a function from the seats 0..3 to such sets.            *)
(***************************************************************************)
EXTENDS Integers, Sequences, FiniteSets, TLC

\* Let(e, F) is F(e): a local binding `let x = e` whose value is evaluated at
\* most once, however often F uses it
Let(e, F(_)) == F(e)

\* ------------------------------------------------------------------------
\* types.rs
\* ------------------------------------------------------------------------
SPADE == 0
HEART == 1
DIAMOND == 2
CLUB == 3
NUM_SUITS == 4
NOTRUMP == NUM_SUITS
TEN == 8
NUM_RANKS == 13
WEST == 0
NORTH == 1
EAST == 2
SOUTH == 3
NUM_SEATS == 4
TOTAL_TRICKS == NUM_RANKS
TOTAL_CARDS == NUM_RANKS * NUM_SUITS

Seats == 0 .. (NUM_SEATS - 1)
Suits == 0 .. (NUM_SUITS - 1)
AllCards == 0 .. (TOTAL_CARDS - 1)

is_ns(seat) == seat % 2 # 0
partner(seat) == (seat + 2) % NUM_SEATS
left_hand_opp(seat) == (seat + 1) % NUM_SEATS
right_hand_opp(seat) == (seat + 3) % NUM_SEATS
next_seat(seat) == (seat + 1) % NUM_SEATS

\* ------------------------------------------------------------------------
\* cards.rs
\* ------------------------------------------------------------------------
suit_of(card) == card \div NUM_RANKS
rank_of(card) == NUM_RANKS - 1 - (card % NUM_RANKS)
card_of(suit, rank) == suit * NUM_RANKS + (NUM_RANKS - 1 - rank)
mask_of(suit) == (suit * NUM_RANKS) .. (suit * NUM_RANKS + NUM_RANKS - 1)
lower_rank(card1, card2) == card1 > card2
higher_rank(card1, card2) == card1 < card2

size(cards) == Cardinality(cards)
have(cards, card) == card \in cards
suit(cards, s) == cards \cap mask_of(s)
\* trailing_zeros of the bits: 64 on the empty set
top(cards) == IF cards = {} THEN 64 ELSE CHOOSE c \in cards : \A d \in cards : c <= d
\* 63 - leading_zeros of the bits; on the empty set the subtraction
\* underflows, which is -1 here: the callers test for it and panic
bottom(cards) == IF cards = {} THEN -1 ELSE CHOOSE c \in cards : \A d \in cards : c >= d
slice(cards, begin, end) == IF end >= 64 THEN cards ELSE {c \in cards : begin <= c /\ c < end}
include(cards, other) == (cards \cap other) = other
RECURSIVE points(_)
points(cards) ==
    IF cards = {} THEN 0
    ELSE LET card == top(cards)
             rank == rank_of(card)
         IN  (IF rank > TEN THEN rank - TEN ELSE 0) + points(cards \ {card})
\* Cards::iter: the cards from the highest rank (lowest bit) to the lowest
RECURSIVE CardsIter(_)
CardsIter(cards) == IF cards = {} THEN <<>>
                    ELSE <<top(cards)>> \o CardsIter(cards \ {top(cards)})

\* ------------------------------------------------------------------------
\* hands.rs, play.rs
\* ------------------------------------------------------------------------
EmptyHands == [s \in Seats |-> {}]
all_cards(hands) == hands[WEST] \cup hands[NORTH] \cup hands[EAST] \cup hands[SOUTH]
num_tricks(hands) == size(hands[WEST])

NoSuit == -1
\* Mutant of get_playable_cards: any card of the hand may be played
get_playable_cards_any(hands, seat, lead_suit) == hands[seat]
get_playable_cards(hands, seat, lead_suit) ==
    IF lead_suit # NoSuit /\ suit(hands[seat], lead_suit) # {}
    THEN suit(hands[seat], lead_suit)
    ELSE hands[seat]

\* ------------------------------------------------------------------------
\* bridge_solver.rs: OrderedCards and the move ordering
\* ------------------------------------------------------------------------
\* OrderedCards is a fixed array of TOTAL_TRICKS cards and a count; add()
\* indexes the array at count, which panics when the array is full.
NewOrdered == [cards |-> <<>>, panic |-> FALSE]
ocAdd(oc, card) ==
    IF oc.panic \/ Len(oc.cards) >= TOTAL_TRICKS \/ card < 0
    THEN [oc EXCEPT !.panic = TRUE]
    ELSE [oc EXCEPT !.cards = Append(@, card)]
RECURSIVE add_cards(_, _)
add_cards(oc, cards) ==
    IF cards = {} THEN oc
    ELSE add_cards(ocAdd(oc, top(cards)), cards \ {top(cards)})
RECURSIVE add_reversed(_, _)
add_reversed(oc, cards) ==
    IF cards = {} THEN oc
    ELSE add_reversed(ocAdd(oc, bottom(cards)), cards \ {bottom(cards)})

\* top of the cards, or prev when there are none (the a, k, q, j, t chain)
TopOr(cards, prev) == IF cards = {} THEN prev ELSE top(cards)
TopAndBottom(my_suit) ==
    {top(my_suit)} \cup (IF size(my_suit) > 1 THEN {bottom(my_suit)} ELSE {})

\* The class one suit falls in inside the loop of order_leads.
LeadClass(playable, hands, seat, trump, all, s) ==
    LET pd_hand == hands[partner(seat)]
        lho_hand == hands[left_hand_opp(seat)]
        rho_hand == hands[right_hand_opp(seat)]
        partnership_cards == hands[seat] \cup pd_hand
        is_suit_contract == trump < NOTRUMP
        my_suit == suit(playable, s)
        pd_suit == suit(pd_hand, s)
        lho_suit == suit(lho_hand, s)
        rho_suit == suit(rho_hand, s)
        all_suit == suit(all, s)
        our_suits == my_suit \cup pd_suit
    IN  Let(top(all_suit), LAMBDA a :
        Let(TopOr(all_suit \ {a}, a), LAMBDA k :
        Let(TopOr(all_suit \ {a, k}, k), LAMBDA q :
        Let(TopOr(all_suit \ {a, k, q}, q), LAMBDA j :
        Let(TopOr(all_suit \ {a, k, q, j}, j), LAMBDA t :
        IF my_suit = {} THEN "skip"
        ELSE IF is_suit_contract /\ s = trump THEN "trump"
        ELSE IF is_suit_contract
                /\ (\/ size(suit(lho_hand, trump)) > 0 /\ suit(lho_hand, s) = {}
                    \/ size(suit(rho_hand, trump)) > 0 /\ suit(rho_hand, s) = {})
             THEN "skip"
        ELSE IF all_suit = {} THEN "skip"
        ELSE IF /\ size(pd_suit) >= 2
                /\ size(lho_suit) >= 2
                /\ \/ have(pd_suit, k) /\ have(lho_suit, a)
                   \/ /\ have(pd_suit, a)
                      /\ have(lho_suit, k)
                      /\ (have(pd_suit, q) \/ include(our_suits, {q, j}))
                   \/ /\ have(pd_suit, k)
                      /\ have(lho_suit, q)
                      /\ (have(pd_suit, j) \/ include(our_suits, {j, t}))
             THEN "good"
        ELSE IF /\ size(my_suit) >= 2
                /\ size(rho_suit) >= 2
                /\ \/ have(my_suit, a) /\ have(rho_suit, k)
                   \/ have(my_suit, k) /\ have(rho_suit, a) /\ ~have(partnership_cards, q)
             THEN IF is_suit_contract THEN "bad" ELSE "skip"
        ELSE IF /\ lho_suit # {}
                /\ rho_suit # {}
                /\ size(partnership_cards \cap {a, k, q}) >= 2
             THEN "high"
        ELSE IF /\ is_suit_contract
                /\ pd_suit = {}
                /\ lho_suit # {}
                /\ rho_suit # {}
                /\ size(suit(pd_hand, trump)) > 0
                /\ size(suit(pd_hand, trump)) <= size(suit(playable, trump))
                /\ bottom(my_suit) # a
             THEN "ruff"
        ELSE "normal")))))

\* The cards order_leads collects for one class over the four suits.
LeadsOf(playable, classes, class) ==
    UNION { IF classes[s] # class THEN {}
            ELSE IF class = "ruff" THEN {bottom(suit(playable, s))}
            ELSE TopAndBottom(suit(playable, s)) : s \in Suits }

order_leads(playable, hands, seat, trump, all) ==
    LET is_suit_contract == trump < NOTRUMP
    IN  Let([s \in Suits |-> LeadClass(playable, hands, seat, trump, all, s)], LAMBDA classes :
        Let(IF is_suit_contract THEN LeadsOf(playable, classes, "ruff") ELSE {}, LAMBDA ruff_leads :
        Let(LeadsOf(playable, classes, "good"), LAMBDA good_leads :
        Let(LeadsOf(playable, classes, "high"), LAMBDA high_leads :
        Let(LeadsOf(playable, classes, "normal"), LAMBDA normal_leads :
        Let(IF is_suit_contract THEN LeadsOf(playable, classes, "bad") ELSE {}, LAMBDA bad_leads :
        Let(IF is_suit_contract THEN LeadsOf(playable, classes, "trump") ELSE {}, LAMBDA trump_leads :
        LET o1 == add_cards(NewOrdered, ruff_leads)
            o2 == add_cards(o1, good_leads)
            o3 == add_cards(o2, high_leads)
            o4 == add_cards(o3, normal_leads)
            o5 == add_cards(o4, bad_leads)
            o6 == add_cards(o5, trump_leads)
            remaining == playable \ (ruff_leads \cup good_leads \cup high_leads
                                     \cup normal_leads \cup bad_leads \cup trump_leads)
        IN  add_cards(o6, remaining))))))))

\* Mutant of wins_over: a trump does not beat a card of another suit
wins_over_no_ruff(c1, c2, trump) ==
    IF suit_of(c1) = suit_of(c2) THEN higher_rank(c1, c2) ELSE FALSE
\* Search::wins_over
wins_over(c1, c2, trump) ==
    LET s1 == suit_of(c1)
        s2 == suit_of(c2)
    IN  IF s1 = s2 THEN higher_rank(c1, c2)
        ELSE IF trump < NOTRUMP /\ s1 = trump THEN TRUE
        ELSE FALSE
\* The closure order_cards_static hands to order_follows
wins_over_static(c1, c2, trump) ==
    IF suit_of(c1) = suit_of(c2) THEN c1 < c2 ELSE suit_of(c1) = trump

\* The (bottom card, suit length) pairs add_discards collects, in suit
\* order, for the non-trump suits from suit s on.
RECURSIVE DiscardList(_, _, _)
DiscardList(playable, trump, s) ==
    IF s >= 4 THEN <<>>
    ELSE IF s = trump \/ suit(playable, s) = {} THEN DiscardList(playable, trump, s + 1)
    ELSE <<[card |-> bottom(suit(playable, s)), len |-> size(suit(playable, s))]>>
         \o DiscardList(playable, trump, s + 1)

\* Stable insertion of d into a list sorted by decreasing suit length.
RECURSIVE InsertByLen(_, _)
InsertByLen(sorted, d) ==
    IF sorted = <<>> THEN <<d>>
    ELSE IF Head(sorted).len >= d.len THEN <<Head(sorted)>> \o InsertByLen(Tail(sorted), d)
    ELSE <<d>> \o sorted
\* sort_by(|a, b| b.1.cmp(&a.1)): a stable sort, longer suits first
RECURSIVE SortByLen(_, _)
SortByLen(sorted, rest) ==
    IF rest = <<>> THEN sorted
    ELSE SortByLen(InsertByLen(sorted, Head(rest)), Tail(rest))
RECURSIVE AddSeq(_, _)
AddSeq(oc, ds) ==
    IF ds = <<>> THEN oc ELSE AddSeq(ocAdd(oc, Head(ds).card), Tail(ds))

add_discards(ordered, playable, trump) ==
    LET discards == DiscardList(playable, trump, 0)
        sorted == SortByLen(<<>>, discards)
        rest == playable \ {discards[i].card : i \in 1 .. Len(discards)}
    IN  add_cards(AddSeq(ordered, sorted), rest)

order_follows(playable, hands, seat, trump, lead_suit, winning_seat, winning_card, card_in_trick) ==
    LET pd_suit == suit(hands[partner(seat)], lead_suit)
        lho_suit == suit(hands[left_hand_opp(seat)], lead_suit)
        trick_ending == card_in_trick = 3
        second_seat == card_in_trick = 1
        my_suit == suit(playable, lead_suit)
        combined == pd_suit \cup my_suit
        higher_cards == slice(my_suit, 0, winning_card)
        lower_cards == my_suit \ higher_cards
        is_suit_contract == trump < NOTRUMP
        my_trumps == IF is_suit_contract THEN suit(playable, trump) ELSE {}
        lho_has_trumps == suit(hands[left_hand_opp(seat)], trump) # {}
        partner_winning == winning_seat = partner(seat)
        higher_trumps == slice(my_trumps, top(my_trumps), winning_card)
    IN  IF my_suit # {} THEN
            IF ~wins_over_static(top(my_suit), winning_card, trump)
            THEN add_reversed(NewOrdered, playable)
            ELSE IF /\ winning_seat = partner(seat)
                    /\ \/ trick_ending
                       \/ lho_suit = {}
                       \/ higher_rank(winning_card, top(lho_suit))
                       \/ slice(lho_suit, 0, winning_card) = slice(lho_suit, 0, top(my_suit))
            THEN add_reversed(NewOrdered, playable)
            ELSE IF /\ second_seat
                    /\ pd_suit # {}
                    /\ higher_rank(top(pd_suit), winning_card)
                    /\ \/ /\ lho_suit # {}
                          /\ higher_rank(top(lho_suit), top(combined))
                          /\ slice(lho_suit, 0, top(pd_suit)) = slice(lho_suit, 0, top(my_suit))
                       \/ lho_suit = {}
                       \/ higher_rank(top(pd_suit), top(lho_suit))
            THEN add_reversed(NewOrdered, playable)
            ELSE IF trick_ending \/ lho_suit = {}
            THEN add_reversed(add_reversed(NewOrdered, higher_cards), lower_cards)
            ELSE IF higher_cards = {}
            THEN [NewOrdered EXCEPT !.panic = TRUE]
            ELSE IF higher_rank(bottom(higher_cards), top(lho_suit))
            THEN add_reversed(add_reversed(NewOrdered, higher_cards), lower_cards)
            ELSE add_reversed(add_cards(NewOrdered, higher_cards), lower_cards)
        ELSE IF my_trumps = {} THEN add_discards(NewOrdered, playable, trump)
        ELSE IF /\ partner_winning
                /\ (trick_ending \/ (lho_suit # {} /\ wins_over_static(winning_card, top(lho_suit), trump)))
        THEN add_discards(NewOrdered, playable, trump)
        ELSE IF suit_of(winning_card) = trump
        THEN IF winning_seat # partner(seat) /\ wins_over_static(top(my_trumps), winning_card, trump)
             THEN add_discards(add_reversed(NewOrdered, higher_trumps),
                               playable \ higher_trumps, trump)
             ELSE add_discards(NewOrdered, playable, trump)
        ELSE IF trick_ending \/ lho_suit # {} \/ ~lho_has_trumps
        THEN add_discards(ocAdd(NewOrdered, bottom(my_trumps)),
                          playable \ {bottom(my_trumps)}, trump)
        ELSE add_discards(add_reversed(NewOrdered, my_trumps), playable \ my_trumps, trump)

\* ------------------------------------------------------------------------
\* 64-bit unsigned arithmetic.  A u64 is the tuple of its eight bytes, least
\* significant first, so that wrapping_add and wrapping_mul are computed
\* exactly (modulo 2^64) with small integers.
\* ------------------------------------------------------------------------
Limbs == 1 .. 8
Zero64 == [i \in Limbs |-> 0]
RECURSIVE SumPow2(_, _)
SumPow2(bits, base) ==
    IF bits = {} THEN 0
    ELSE LET b == CHOOSE x \in bits : TRUE
         IN  2 ^ (b - base) + SumPow2(bits \ {b}, base)
\* The u64 whose set bits are the given bit indices (Cards::value)
BitsToU64(bits) ==
    [i \in Limbs |-> SumPow2({b \in bits : b \div 8 = i - 1}, 8 * (i - 1))]
\* n as u64, for n < 2^24
U64OfNat(n) == [i \in Limbs |-> IF i <= 3 THEN (n \div (256 ^ (i - 1))) % 256 ELSE 0]
\* The bytes of the sum, from the byte sums and their carries
wrapping_add(a, b) ==
    LET t1 == a[1] + b[1]
        t2 == a[2] + b[2] + t1 \div 256
        t3 == a[3] + b[3] + t2 \div 256
        t4 == a[4] + b[4] + t3 \div 256
        t5 == a[5] + b[5] + t4 \div 256
        t6 == a[6] + b[6] + t5 \div 256
        t7 == a[7] + b[7] + t6 \div 256
        t8 == a[8] + b[8] + t7 \div 256
    IN  <<t1 % 256, t2 % 256, t3 % 256, t4 % 256, t5 % 256, t6 % 256, t7 % 256, t8 % 256>>
\* column k of the schoolbook product: the sum of a[i] * b[j] with i + j = k + 1
MulTerm(a, b, k, i) == IF i <= k THEN a[i] * b[k + 1 - i] ELSE 0
MulColumn(a, b, k) ==
    ((MulTerm(a, b, k, 1) + MulTerm(a, b, k, 2)) + (MulTerm(a, b, k, 3) + MulTerm(a, b, k, 4)))
    + ((MulTerm(a, b, k, 5) + MulTerm(a, b, k, 6)) + (MulTerm(a, b, k, 7) + MulTerm(a, b, k, 8)))
\* The bytes of the product modulo 2^64, from the columns and their carries
wrapping_mul(a, b) ==
    LET t1 == MulColumn(a, b, 1)
        t2 == MulColumn(a, b, 2) + t1 \div 256
        t3 == MulColumn(a, b, 3) + t2 \div 256
        t4 == MulColumn(a, b, 4) + t3 \div 256
        t5 == MulColumn(a, b, 5) + t4 \div 256
        t6 == MulColumn(a, b, 6) + t5 \div 256
        t7 == MulColumn(a, b, 7) + t6 \div 256
        t8 == MulColumn(a, b, 8) + t7 \div 256
    IN  <<t1 % 256, t2 % 256, t3 % 256, t4 % 256, t5 % 256, t6 % 256, t7 % 256, t8 % 256>>
\* hash >> (64 - bits), for 1 <= bits <= 24
TopBits(hash, bits) ==
    (hash[8] * 65536 + hash[7] * 256 + hash[6]) \div (2 ^ (24 - bits))

\* HASH_RAND = [0x9b8b4567327b23c7, 0x643c986966334873]
HASH_RAND0 == <<199, 35, 123, 50, 103, 69, 139, 155>>
HASH_RAND1 == <<115, 72, 51, 102, 105, 152, 60, 100>>
hash_cutoff_index(key0, key1) ==
    wrapping_mul(wrapping_add(key0, HASH_RAND0), wrapping_add(key1, HASH_RAND1))

\* The keys are sets of bit indices; the second component of the result is
\* the key pair the hash is computed from.
build_cutoff_index(hands, seat_to_play, card_in_trick, lead_suit, winning_card, winning_seat, trump, all) ==
    LET following == card_in_trick # 0 /\ suit(hands[seat_to_play], lead_suit) # {}
        key0 == IF following THEN suit(all, lead_suit) ELSE hands[seat_to_play]
        key1 == IF card_in_trick = 0 THEN {}
                ELSE IF following THEN {winning_card}
                ELSE IF trump = NOTRUMP THEN {winning_seat}
                ELSE {winning_card}
    IN  hash_cutoff_index(BitsToU64(key0),
                          BitsToU64(key1 \cup {TOTAL_CARDS + card_in_trick}))

\* ------------------------------------------------------------------------
\* search.rs: CutoffCache.  entries holds the slots that were written; every
\* other slot is the default entry (hash 0, no card).
\* ------------------------------------------------------------------------
NoCard == 255
DefaultCutoffEntry == [hash |-> Zero64, card |-> [s \in Seats |-> NoCard]]
NewCutoffCache(bits) ==
    [entries |-> << >>, bits |-> bits, mask |-> 2 ^ bits - 1,
     probe_distance |-> 0, load_count |-> 0]
CutoffEntryAt(cache, idx) ==
    IF idx \in DOMAIN cache.entries THEN cache.entries[idx] ELSE DefaultCutoffEntry
CutoffIndex(cache, hash) == TopBits(hash, cache.bits)

\* Option<usize>: the card, or NoCard for None
RECURSIVE CutoffProbe(_, _, _, _)
CutoffProbe(cache, hash, seat, d) ==
    IF d >= cache.probe_distance THEN NoCard
    ELSE LET entry == CutoffEntryAt(cache, (CutoffIndex(cache, hash) + d) % (cache.mask + 1))
         IN  IF entry.hash = hash THEN entry.card[seat]
             ELSE IF entry.hash = Zero64 THEN NoCard
             ELSE CutoffProbe(cache, hash, seat, d + 1)
CutoffLookup(cache, hash, seat) == CutoffProbe(cache, hash, seat, 0)

RECURSIVE CutoffInsert(_, _, _, _, _)
\* Mutant of CutoffInsert: a store to an entry that exists clears the cards
\* of its other seats
CutoffInsert_clear(cache, hash, seat, card, d) ==
    LET idx == (CutoffIndex(cache, hash) + d) % (cache.mask + 1)
        entry == CutoffEntryAt(cache, idx)
        Put(e) == [x \in DOMAIN cache.entries \cup {idx} |->
                      IF x = idx THEN e ELSE cache.entries[x]]
    IN  IF entry.hash = hash \/ entry.hash = Zero64
        THEN [cache EXCEPT
                !.probe_distance = IF @ > d + 1 THEN @ ELSE d + 1,
                !.load_count = IF entry.hash = hash THEN @ ELSE @ + 1,
                !.entries = Put([hash |-> hash,
                                 card |-> [DefaultCutoffEntry.card EXCEPT ![seat] = card]])]
        ELSE CutoffInsert(cache, hash, seat, card, d + 1)
CutoffInsert(cache, hash, seat, card, d) ==
    LET idx == (CutoffIndex(cache, hash) + d) % (cache.mask + 1)
        entry == CutoffEntryAt(cache, idx)
        Put(e) == [x \in DOMAIN cache.entries \cup {idx} |->
                      IF x = idx THEN e ELSE cache.entries[x]]
    IN  IF entry.hash = hash
        THEN [cache EXCEPT !.entries = Put([entry EXCEPT !.card[seat] = card])]
        ELSE IF entry.hash = Zero64
        THEN [cache EXCEPT
                !.probe_distance = IF @ > d + 1 THEN @ ELSE d + 1,
                !.load_count = @ + 1,
                !.entries = Put([hash |-> hash,
                                 card |-> [DefaultCutoffEntry.card EXCEPT ![seat] = card]])]
        ELSE CutoffInsert(cache, hash, seat, card, d + 1)

RECURSIVE CutoffStore(_, _, _, _), CutoffReinsert(_, _, _, _)
\* resize(): the entries of old are stored again, slot by slot and seat by
\* seat, into the cache of twice the size
CutoffReinsert(cache, old, idx, seat) ==
    IF idx > old.mask THEN cache
    ELSE IF seat > 3 THEN CutoffReinsert(cache, old, idx + 1, 0)
    ELSE LET entry == CutoffEntryAt(old, idx)
         IN  IF entry.hash # Zero64 /\ entry.card[seat] # NoCard
             THEN CutoffReinsert(CutoffStore(cache, entry.hash, seat, entry.card[seat]),
                                 old, idx, seat + 1)
             ELSE CutoffReinsert(cache, old, idx, seat + 1)
CutoffResize(cache) == CutoffReinsert(NewCutoffCache(cache.bits + 1), cache, 0, 0)
\* Mutant of CutoffStore: the table is resized only when it is full
CutoffStore_full(cache, hash, seat, card) ==
    LET sz == cache.mask + 1
        c1 == IF cache.load_count >= sz THEN CutoffResize(cache) ELSE cache
    IN  CutoffInsert(c1, hash, seat, card, 0)
CutoffStore(cache, hash, seat, card) ==
    LET sz == cache.mask + 1
        c1 == IF cache.load_count >= (sz * 3) \div 4 THEN CutoffResize(cache) ELSE cache
    IN  CutoffInsert(c1, hash, seat, card, 0)

\* ------------------------------------------------------------------------
\* pattern.rs
\* ------------------------------------------------------------------------
\* The elements of mask in increasing order
RECURSIVE MaskSeq(_)
MaskSeq(mask) == IF mask = {} THEN <<>> ELSE <<top(mask)>> \o MaskSeq(mask \ {top(mask)})
\* pack_bits: bit i of the result is set when the i-th lowest bit of mask is
\* set in source
pack_bits(source, mask) ==
    LET m == MaskSeq(mask)
    IN  {i \in 0 .. (Len(m) - 1) : m[i + 1] \in source}
\* unpack_bits: the i-th lowest bit of mask is set when bit i of source is
unpack_bits(source, mask) ==
    LET m == MaskSeq(mask)
    IN  {m[i + 1] : i \in {x \in source : x < Len(m)}}

\* Shape: one 4-bit length per seat and suit, at bit offset(seat, suit);
\* modelled as the function from seat * NUM_SUITS + suit to the length.
ShapeSlots == 0 .. (NUM_SEATS * NUM_SUITS - 1)
offset(seat, s) == 60 - (seat * NUM_SUITS + s) * 4
ShapeFromHands(hands) ==
    [k \in ShapeSlots |-> size(suit(hands[k \div NUM_SUITS], k % NUM_SUITS))]
ShapePlayCards(shape, seat, c1, c2, c3, c4) ==
    LET k1 == seat * NUM_SUITS + suit_of(c1)
        k2 == ((seat + 1) % NUM_SEATS) * NUM_SUITS + suit_of(c2)
        k3 == ((seat + 2) % NUM_SEATS) * NUM_SUITS + suit_of(c3)
        k4 == ((seat + 3) % NUM_SEATS) * NUM_SUITS + suit_of(c4)
    IN  [shape EXCEPT ![k1] = @ - 1, ![k2] = @ - 1, ![k3] = @ - 1, ![k4] = @ - 1]
\* Shape::value: byte i holds the lengths at offsets 8 * i + 4 and 8 * i
ShapeValue(shape) ==
    [i \in Limbs |-> shape[(60 - (8 * (i - 1) + 4)) \div 4] * 16
                     + shape[(60 - 8 * (i - 1)) \div 4]]

BoundsIsEmpty(b) == b.upper < b.lower
Max(a, b) == IF a >= b THEN a ELSE b
Min(a, b) == IF a <= b THEN a ELSE b
\* Mutant of BoundsIntersect: the other bounds replace the bounds
BoundsIntersect_other(b, other) == other
BoundsIntersect(b, other) ==
    [lower |-> Max(b.lower, other.lower), upper |-> Min(b.upper, other.upper)]
BoundsCutoff(b, beta) == b.lower >= beta \/ b.upper < beta

DefaultPattern ==
    [hands |-> EmptyHands, bounds |-> [lower |-> 0, upper |-> TOTAL_TRICKS],
     children |-> <<>>]
\* Mutant of NewPattern: every pattern is made with the bounds 0..0
NewPattern_zero(hands, bounds) ==
    [hands |-> hands, bounds |-> [lower |-> 0, upper |-> 0], children |-> <<>>]
NewPattern(hands, bounds) == [hands |-> hands, bounds |-> bounds, children |-> <<>>]
\* Mutant of is_subset_of: only the hand of West is compared
is_subset_of_west(p, other) == include(p.hands[WEST], other.hands[WEST])
is_subset_of(p, other) == \A s \in Seats : include(p.hands[s], other.hands[s])
hands_equal(p, other) == \A s \in Seats : p.hands[s] = other.hands[s]

\* Vec::swap_remove at the 1-based position i: the last element takes the
\* place of the removed one
swap_remove(v, i) ==
    IF i = Len(v) THEN SubSeq(v, 1, Len(v) - 1)
    ELSE [SubSeq(v, 1, Len(v) - 1) EXCEPT ![i] = v[Len(v)]]

\* Pattern::lookup: the first child, depth first, that the new pattern is a
\* subset of and whose bounds cut off at beta; found = FALSE for None
NoMatch == [found |-> FALSE, hands |-> EmptyHands, bounds |-> [lower |-> 0, upper |-> 0]]
RECURSIVE PatternLookup(_, _, _, _)
\* Mutant of PatternLookup: the first child whose bounds cut off matches,
\* whether or not the new pattern is a subset of it
PatternLookup_any(p, new_pattern, beta, i) ==
    IF \E k \in i .. Len(p.children) : BoundsCutoff(p.children[k].bounds, beta)
    THEN LET k == CHOOSE k \in i .. Len(p.children) :
                      /\ BoundsCutoff(p.children[k].bounds, beta)
                      /\ \A j \in i .. k - 1 : ~BoundsCutoff(p.children[j].bounds, beta)
         IN  [found |-> TRUE, hands |-> p.children[k].hands, bounds |-> p.children[k].bounds]
    ELSE NoMatch
PatternLookup(p, new_pattern, beta, i) ==
    IF i > Len(p.children) THEN NoMatch
    ELSE LET child == p.children[i]
         IN  IF ~is_subset_of(new_pattern, child)
             THEN PatternLookup(p, new_pattern, beta, i + 1)
             ELSE IF BoundsCutoff(child.bounds, beta)
             THEN [found |-> TRUE, hands |-> child.hands, bounds |-> child.bounds]
             ELSE Let(PatternLookup(child, new_pattern, beta, 1), LAMBDA detail :
                      IF detail.found THEN detail
                      ELSE PatternLookup(p, new_pattern, beta, i + 1))

RECURSIVE update_bounds(_, _), UpdateBoundsLoop(_, _)
\* Mutant of update_bounds: the new bounds do not reach the children
update_bounds_flat(p, new_bounds) == [p EXCEPT !.bounds = BoundsIntersect(@, new_bounds)]
\* Pattern::update_bounds, and its loop over the children from position i
update_bounds(p, new_bounds) ==
    LET old_bounds == p.bounds
    IN  Let([p EXCEPT !.bounds = BoundsIntersect(@, new_bounds)], LAMBDA p1 :
            IF BoundsIsEmpty(p1.bounds) \/ p1.bounds = old_bounds THEN p1
            ELSE UpdateBoundsLoop(p1, 1))
UpdateBoundsLoop(p, i) ==
    IF i > Len(p.children) THEN p
    ELSE Let(update_bounds(p.children[i], p.bounds), LAMBDA child :
             IF child.bounds # p.bounds
             THEN UpdateBoundsLoop([p EXCEPT !.children[i] = child], i + 1)
             ELSE UpdateBoundsLoop(
                    [p EXCEPT !.children = swap_remove(@, i) \o child.children], i))

\* The "check remaining children" loop of Pattern::update: the children of
\* self from position j on that are subsets of new_pattern move below it.
\* The result is the pair of self and new_pattern.
RECURSIVE AbsorbLoop(_, _, _)
AbsorbLoop(self, new_pattern, j) ==
    IF j > Len(self.children) THEN [self |-> self, new_pattern |-> new_pattern]
    ELSE IF is_subset_of(self.children[j], new_pattern)
    THEN Let(update_bounds(self.children[j], new_pattern.bounds), LAMBDA child :
             AbsorbLoop([self EXCEPT !.children = swap_remove(@, j)],
                        IF child.bounds # new_pattern.bounds
                        THEN [new_pattern EXCEPT !.children = Append(@, child)]
                        ELSE [new_pattern EXCEPT !.children = @ \o child.children],
                        j))
    ELSE AbsorbLoop(self, new_pattern, j + 1)

\* Pattern::update, scanning the children of self from position i
RECURSIVE UpdateFrom(_, _, _)
UpdateFrom(self, new_pattern, i) ==
    IF i > Len(self.children)
    THEN [self EXCEPT !.children = Append(@, new_pattern)]
    ELSE LET child == self.children[i]
         IN  IF hands_equal(new_pattern, child)
             THEN [self EXCEPT !.children[i] = update_bounds(child, new_pattern.bounds)]
             ELSE IF is_subset_of(new_pattern, child)
             THEN Let(BoundsIntersect(new_pattern.bounds, child.bounds), LAMBDA nb :
                      IF ~BoundsIsEmpty(nb) /\ nb # child.bounds
                      THEN [self EXCEPT !.children[i] =
                              UpdateFrom(child, [new_pattern EXCEPT !.bounds = nb], 1)]
                      ELSE self)
             ELSE IF is_subset_of(child, new_pattern)
             THEN Let(AbsorbLoop(self, new_pattern, i), LAMBDA r :
                      [r.self EXCEPT !.children = Append(@, r.new_pattern)])
             ELSE UpdateFrom(self, new_pattern, i + 1)
PatternUpdate(self, new_pattern) == UpdateFrom(self, new_pattern, 1)

\* Pattern::get_rank_winners: the relative cards of the pattern as actual cards
get_rank_winners(p, all) ==
    LET relative_rank_winners == all_cards(p.hands)
    IN  UNION { LET rel_suit == suit(relative_rank_winners, s)
                    packed == {c - s * NUM_RANKS : c \in rel_suit}
                IN  unpack_bits(packed, suit(all, s)) : s \in Suits }

\* ShapeEntry and PatternCache.  entries holds the slots that were written;
\* every other slot is the default entry.
DefaultShapeEntry == [hash |-> Zero64, pattern |-> DefaultPattern]
NewPatternCache(bits) == [entries |-> << >>, bits |-> bits, mask |-> 2 ^ bits - 1]
ShapeEntryAt(cache, idx) ==
    IF idx \in DOMAIN cache.entries THEN cache.entries[idx] ELSE DefaultShapeEntry
ShapeEntryLookup(entry, new_pattern, beta) ==
    IF BoundsCutoff(entry.pattern.bounds, beta) /\ is_subset_of(new_pattern, entry.pattern)
    THEN [found |-> TRUE, hands |-> entry.pattern.hands, bounds |-> entry.pattern.bounds]
    ELSE PatternLookup(entry.pattern, new_pattern, beta, 1)
\* Mutant of PatternHash: the seat to play is left out of the hash
PatternHash_no_seat(shape, seat_to_play) ==
    wrapping_mul(wrapping_add(shape, HASH_RAND0), HASH_RAND1)
PatternHash(shape, seat_to_play) ==
    wrapping_mul(wrapping_add(shape, HASH_RAND0),
                 wrapping_add(U64OfNat(seat_to_play), HASH_RAND1))
PatternIndex(cache, hash) == TopBits(hash, cache.bits) % (cache.mask + 1)
\* PatternCache::lookup: found = FALSE for None
PatternCacheLookup(cache, shape, seat_to_play) ==
    Let(PatternHash(shape, seat_to_play), LAMBDA hash :
    Let(ShapeEntryAt(cache, PatternIndex(cache, hash)), LAMBDA entry :
        [found |-> entry.hash = hash, entry |-> entry]))
\* Mutant of get_or_create: a slot taken over keeps the tree it held
get_or_create_keep(cache, shape, seat_to_play) ==
    Let(PatternHash(shape, seat_to_play), LAMBDA hash :
    Let(PatternIndex(cache, hash), LAMBDA idx :
    Let(ShapeEntryAt(cache, idx), LAMBDA old :
        [cache EXCEPT !.entries =
            [x \in DOMAIN cache.entries \cup {idx} |->
                IF x = idx THEN [old EXCEPT !.hash = hash] ELSE cache.entries[x]]])))
\* PatternCache::get_or_create: the cache after the call; the entry returned
\* is the one at the index of the hash
get_or_create(cache, shape, seat_to_play) ==
    Let(PatternHash(shape, seat_to_play), LAMBDA hash :
    Let(PatternIndex(cache, hash), LAMBDA idx :
    Let(ShapeEntryAt(cache, idx), LAMBDA old :
        [cache EXCEPT !.entries =
            [x \in DOMAIN cache.entries \cup {idx} |->
                IF x # idx THEN cache.entries[x]
                ELSE IF old.hash # hash THEN [hash |-> hash, pattern |-> DefaultPattern]
                ELSE old]])))
\* get_or_create followed by entry.pattern.update(new_pattern)
PatternCacheUpdate(cache, shape, seat_to_play, new_pattern) ==
    Let(PatternIndex(cache, PatternHash(shape, seat_to_play)), LAMBDA idx :
        [get_or_create(cache, shape, seat_to_play) EXCEPT
            !.entries[idx].pattern = PatternUpdate(@, new_pattern)])

\* RelativeHands
convert_suit(rel, hands, s, all_suit_cards) ==
    [seat \in Seats |->
        (rel[seat] \ mask_of(s))
        \cup {i + s * NUM_RANKS : i \in pack_bits(suit(hands[seat], s), all_suit_cards)}]
RECURSIVE RelativeCompute(_, _, _, _)
RelativeCompute(rel, hands, all, s) ==
    IF s >= NUM_SUITS THEN rel
    ELSE RelativeCompute(convert_suit(rel, hands, s, suit(all, s)), hands, all, s + 1)
RECURSIVE RelativeUpdateLoop(_, _, _, _)
RelativeUpdateLoop(rel, hands, new_all_cards, remaining) ==
    IF remaining = {} THEN rel
    ELSE LET s == suit_of(top(remaining))
         IN  RelativeUpdateLoop(convert_suit(rel, hands, s, suit(new_all_cards, s)),
                                hands, new_all_cards, remaining \ mask_of(s))
\* Mutant of RelativeUpdate: only the suit of the highest card played is
\* converted again
RelativeUpdate_top(rel, hands, prev_all_cards, new_all_cards) ==
    LET changed == prev_all_cards \ new_all_cards
    IN  IF changed = {} THEN rel
        ELSE convert_suit(rel, hands, suit_of(top(changed)),
                          suit(new_all_cards, suit_of(top(changed))))
RelativeUpdate(rel, hands, prev_all_cards, new_all_cards) ==
    RelativeUpdateLoop(rel, hands, new_all_cards, prev_all_cards \ new_all_cards)

\* compute_pattern_hands
relative_card_in_suit(card, all_suit_cards) ==
    suit_of(card) * NUM_RANKS + size(slice(all_suit_cards, 0, card))
\* trailing_ones of value >> shift
RECURSIVE TrailingOnesFrom(_, _)
TrailingOnesFrom(value, shift) ==
    IF shift \in value THEN 1 + TrailingOnesFrom(value, shift + 1) ELSE 0
\* 64 - leading_zeros
BitLength(value) == IF value = {} THEN 0 ELSE bottom(value) + 1
\* The lowest relative rank winner of suit s after the extension
ActualRelBottom(relative_hands, all, rank_winners, s) ==
    LET rw_suit == suit(rank_winners, s)
        all_rel == suit(all_cards(relative_hands), s)
    IN  Let(relative_card_in_suit(bottom(rw_suit), suit(all, s)), LAMBDA rel_bottom :
        Let({seat \in Seats : have(suit(relative_hands[seat], s), rel_bottom)}, LAMBDA holders :
        Let(CHOOSE x \in holders : \A y \in holders : x <= y, LAMBDA seat :
        Let({c - s * NUM_RANKS : c \in suit(relative_hands[seat], s)}, LAMBDA suit_value :
        Let(rel_bottom + TrailingOnesFrom(suit_value, rel_bottom - s * NUM_RANKS + 1),
            LAMBDA extended :
        LET idx == extended - s * NUM_RANKS
        IN  IF holders = {} THEN rel_bottom
            ELSE IF extended = bottom(all_rel) /\ idx > 0
            THEN extended - BitLength({x \in suit_value : x < idx})
            ELSE extended)))))
\* The result is the pair (pattern_hands, extended_rank_winners)
compute_pattern_hands(relative_hands, all, rank_winners) ==
    Let([s \in Suits |->
            IF suit(rank_winners, s) = {} THEN {}
            ELSE slice(mask_of(s), 0,
                       ActualRelBottom(relative_hands, all, rank_winners, s) + 1)],
        LAMBDA RelWinners :
    Let(UNION {RelWinners[s] : s \in Suits}, LAMBDA relative_rank_winners :
        [pattern_hands |-> [seat \in Seats |-> relative_hands[seat] \cap relative_rank_winners],
         extended_rank_winners |->
            UNION { unpack_bits({c - s * NUM_RANKS : c \in RelWinners[s]}, suit(all, s))
                    : s \in Suits }]))

\* ------------------------------------------------------------------------
\* search.rs: fast and slow trick estimates
\* ------------------------------------------------------------------------
\* The pd_entry flag suit_fast_tricks sets through its last parameter
SuitEntry(my_suit, my_winners, pd_suit) ==
    pd_suit # {} /\ my_winners > 0 /\ higher_rank(top(my_suit), bottom(pd_suit))
suit_fast_tricks(my_suit, my_winners, pd_suit, pd_winners) ==
    IF pd_winners = 0 THEN my_winners
    ELSE IF my_winners = 0 THEN (IF my_suit # {} THEN pd_winners ELSE 0)
    ELSE IF pd_suit # {} /\ lower_rank(top(my_suit), bottom(pd_suit)) THEN pd_winners
    ELSE IF pd_suit # {} /\ higher_rank(bottom(my_suit), top(pd_suit)) THEN my_winners
    ELSE LET adjusted_pd_winners ==
                 IF pd_winners = size(pd_suit) /\ pd_winners > 0
                 THEN pd_winners - 1 ELSE pd_winners
         IN  Min(size(my_suit), my_winners + adjusted_pd_winners)

\* The consecutive top trumps held by both_trumps, at most max_trump_tricks
RECURSIVE TopRun(_, _, _)
TopRun(all_trumps, both_trumps, max_trump_tricks) ==
    IF all_trumps = {} \/ max_trump_tricks <= 0 \/ ~have(both_trumps, top(all_trumps))
    THEN {}
    ELSE {top(all_trumps)}
         \cup TopRun(all_trumps \ {top(all_trumps)}, both_trumps, max_trump_tricks - 1)
TopTrumpTricks(my_trumps, pd_trumps, all_trumps) ==
    IF my_trumps = all_trumps THEN [n |-> size(my_trumps), rank_winners |-> {}]
    ELSE IF pd_trumps = all_trumps THEN [n |-> size(pd_trumps), rank_winners |-> {}]
    ELSE LET run == TopRun(all_trumps, my_trumps \cup pd_trumps,
                           Max(size(my_trumps), size(pd_trumps)))
         IN  [n |-> size(run), rank_winners |-> run]
top_trump_tricks_our_side(hands, trump, seat, all) ==
    TopTrumpTricks(suit(hands[seat], trump), suit(hands[partner(seat)], trump),
                   suit(all, trump))

\* The n highest cards: the bottom card is removed while there are more
RECURSIVE Truncate(_, _)
Truncate(cards, n) == IF size(cards) > n THEN Truncate(cards \ {bottom(cards)}, n) ELSE cards

\* The winner-counting loop of fast_tricks_from_seat over the cards of the
\* suit from the top: acc is (my_winners, pd_winners, rank winners of each)
RECURSIVE CountWinners(_, _, _, _, _, _)
CountWinners(all_suit, my_suit, pd_suit, my_max, pd_max, acc) ==
    IF all_suit = {} THEN acc
    ELSE LET card == top(all_suit)
         IN  IF have(my_suit, card)
             THEN CountWinners(all_suit \ {card}, my_suit, pd_suit, my_max, pd_max,
                    [acc EXCEPT !.my_winners = @ + 1,
                                !.rank_winners =
                                   IF acc.my_winners + 1 <= my_max THEN @ \cup {card} ELSE @])
             ELSE IF have(pd_suit, card)
             THEN CountWinners(all_suit \ {card}, my_suit, pd_suit, my_max, pd_max,
                    [acc EXCEPT !.pd_winners = @ + 1,
                                !.pd_rank_winners =
                                   IF acc.pd_winners + 1 <= pd_max THEN @ \cup {card} ELSE @])
             ELSE acc

\* One iteration of the suit loop of fast_tricks_from_seat; acc carries
\* rank_winners, pd_rank_winners, my_tricks, pd_tricks and pd_entry.
FastSuit(hands, trump, search_num_tricks, seat, all, s, acc) ==
    LET lho_hand == hands[left_hand_opp(seat)]
        rho_hand == hands[right_hand_opp(seat)]
        my_suit0 == suit(hands[seat], s)
        pd_suit0 == suit(hands[partner(seat)], s)
        lho_suit == suit(lho_hand, s)
        rho_suit == suit(rho_hand, s)
        all_suit == suit(all, s)
        my_max_rank_winners == Max(Max(size(pd_suit0), size(lho_suit)), size(rho_suit))
        pd_max_rank_winners == Max(Max(size(my_suit0), size(lho_suit)), size(rho_suit))
    IN  IF trump < NOTRUMP /\ s = trump THEN acc
        ELSE IF my_suit0 = {} /\ pd_suit0 = {} THEN acc
        ELSE
        Let(IF suit(lho_hand, trump) # {} THEN size(lho_suit) ELSE search_num_tricks, LAMBDA m1 :
        Let(IF suit(rho_hand, trump) # {} THEN Min(m1, size(rho_suit)) ELSE m1,
            LAMBDA max_suit_winners :
        Let(IF trump < NOTRUMP THEN Truncate(my_suit0, max_suit_winners) ELSE my_suit0,
            LAMBDA my_suit :
        Let(IF trump < NOTRUMP THEN Truncate(pd_suit0, max_suit_winners) ELSE pd_suit0,
            LAMBDA pd_suit :
        Let(CountWinners(all_suit, my_suit, pd_suit, my_max_rank_winners,
                         pd_max_rank_winners,
                         [my_winners |-> 0, pd_winners |-> 0,
                          rank_winners |-> acc.rank_winners,
                          pd_rank_winners |-> acc.pd_rank_winners]),
            LAMBDA w :
             [rank_winners |-> w.rank_winners,
              pd_rank_winners |-> w.pd_rank_winners,
              my_tricks |-> acc.my_tricks
                            + suit_fast_tricks(my_suit, w.my_winners, pd_suit, w.pd_winners),
              pd_tricks |-> acc.pd_tricks
                            + suit_fast_tricks(pd_suit, w.pd_winners, my_suit, w.my_winners),
              pd_entry |-> acc.pd_entry \/ SuitEntry(pd_suit, w.pd_winners, my_suit)])))))
RECURSIVE FastSuits(_, _, _, _, _, _, _)
FastSuits(hands, trump, search_num_tricks, seat, all, s, acc) ==
    IF s >= NUM_SUITS THEN acc
    ELSE FastSuits(hands, trump, search_num_tricks, seat, all, s + 1,
                   FastSuit(hands, trump, search_num_tricks, seat, all, s, acc))
\* The results of the estimators are records (n, rank_winners)
fast_tricks_from_seat(hands, trump, search_num_tricks, seat, all) ==
    Let(IF trump < NOTRUMP THEN top_trump_tricks_our_side(hands, trump, seat, all)
        ELSE [n |-> 0, rank_winners |-> {}],
        LAMBDA tt :
    Let(FastSuits(hands, trump, search_num_tricks, seat, all, 0,
                  [rank_winners |-> tt.rank_winners, pd_rank_winners |-> {},
                   my_tricks |-> 0, pd_tricks |-> 0, pd_entry |-> FALSE]),
        LAMBDA r :
        LET side_suit_tricks == IF r.pd_entry THEN Max(r.my_tricks, r.pd_tricks)
                                ELSE r.my_tricks
        IN  [n |-> Min(tt.n + side_suit_tricks, size(hands[seat])),
             rank_winners |-> IF r.pd_entry THEN r.rank_winners \cup r.pd_rank_winners
                              ELSE r.rank_winners]))
\* Mutant of fast_tricks: one trick more than the sure ones
fast_tricks_plus_one(hands, trump, search_num_tricks, seat_to_play, depth) ==
    Let(fast_tricks_from_seat(hands, trump, search_num_tricks, seat_to_play,
                              all_cards(hands)),
        LAMBDA r : [r EXCEPT !.n = @ + 1])
fast_tricks(hands, trump, search_num_tricks, seat_to_play, depth) ==
    Let(fast_tricks_from_seat(hands, trump, search_num_tricks, seat_to_play,
                              all_cards(hands)),
        LAMBDA r : [r EXCEPT !.n = Min(@, search_num_tricks - depth \div 4)])

top_trump_tricks_opponent(hands, trump, seat_to_play) ==
    TopTrumpTricks(suit(hands[left_hand_opp(seat_to_play)], trump),
                   suit(hands[right_hand_opp(seat_to_play)], trump),
                   suit(all_cards(hands), trump))

NoTricks == [n |-> 0, rank_winners |-> {}]
\* Mutant of slow_trump_tricks_opponent: the opponents always have a trump
\* trick coming
slow_trump_tricks_opponent_one(hands, trump, seat_to_play) ==
    [n |-> 1, rank_winners |-> {}]
slow_trump_tricks_opponent(hands, trump, seat_to_play) ==
    LET all_trumps == suit(all_cards(hands), trump)
        my_trumps == suit(hands[left_hand_opp(seat_to_play)], trump)
        pd_trumps == suit(hands[right_hand_opp(seat_to_play)], trump)
        lho_trumps == suit(hands[partner(seat_to_play)], trump)
        rho_trumps == suit(hands[seat_to_play], trump)
        a == top(all_trumps)
        k == top(all_trumps \ {a})
        q == top(all_trumps \ {a, k})
        pd_has_k_strictly == have(pd_trumps, k) /\ size(pd_trumps) > 1
        my_has_k_strictly == have(my_trumps, k) /\ size(my_trumps) > 1
        pd_has_q_with_length == have(pd_trumps, q) /\ size(pd_trumps) >= 3
        my_has_q_with_length == have(my_trumps, q) /\ size(my_trumps) >= 3
        lho_has_ak == have(lho_trumps, a) /\ have(lho_trumps, k)
        rho_has_ak == have(rho_trumps, a) /\ have(rho_trumps, k)
    IN  IF size(all_trumps) < 3 THEN NoTricks
        ELSE IF \/ pd_has_k_strictly /\ have(lho_trumps, a)
                \/ my_has_k_strictly /\ have(rho_trumps, a)
        THEN [n |-> 1, rank_winners |-> {a, k}]
        ELSE IF /\ q < 64
                /\ size(all_trumps) >= 5
                /\ \/ pd_has_q_with_length /\ lho_has_ak
                   \/ my_has_q_with_length /\ rho_has_ak
        THEN [n |-> 1, rank_winners |-> {a, k, q}]
        ELSE NoTricks

\* The tops of the suits held by the player to play, or FALSE in ok when the
\* player's side holds one of them
RECURSIVE SlowTops(_, _, _, _)
SlowTops(hands, seat_to_play, s, acc) ==
    LET my_side_cards == hands[seat_to_play] \cup hands[partner(seat_to_play)]
        all_suit == suit(all_cards(hands), s)
    IN  IF s >= NUM_SUITS THEN [ok |-> TRUE, rank_winners |-> acc]
        ELSE IF suit(hands[seat_to_play], s) = {} \/ all_suit = {}
        THEN SlowTops(hands, seat_to_play, s + 1, acc)
        ELSE IF have(my_side_cards, top(all_suit)) THEN [ok |-> FALSE, rank_winners |-> {}]
        ELSE SlowTops(hands, seat_to_play, s + 1, acc \cup {top(all_suit)})
slow_tricks_opponent(hands, seat_to_play) ==
    LET lho_hand == hands[left_hand_opp(seat_to_play)]
        rho_hand == hands[right_hand_opp(seat_to_play)]
    IN  Let(SlowTops(hands, seat_to_play, 0, {}), LAMBDA r :
            IF ~r.ok \/ r.rank_winners = {} THEN NoTricks
            ELSE IF include(lho_hand, r.rank_winners) \/ include(rho_hand, r.rank_winners)
            THEN [n |-> size(r.rank_winners), rank_winners |-> r.rank_winners]
            ELSE [n |-> 1, rank_winners |-> r.rank_winners])

\* ------------------------------------------------------------------------
\* search.rs: Search.  The search state st is the record of the fields of
\* Search (hands, trump, num_tricks, plays, tricks, the two caches,
\* start_depth), of the three flags NO_TT, NO_PRUNING, NO_RANK_SKIP, of
\* NODE_COUNT (nodes), and of panic, which is set when an operation of the
\* search panics (index out of bounds, arithmetic overflow) and then ends
\* the search.  A search result is (st, ns_tricks, rank_winners).
\* ------------------------------------------------------------------------
Depths == 0 .. (TOTAL_CARDS - 1)
TrickIdxs == 0 .. (TOTAL_TRICKS - 1)
DefaultPlayState == [ns_tricks_won |-> 0, seat_to_play |-> 0, card_played |-> 0,
                     winning_play |-> 0]
DefaultTrick == [all_cards |-> {}, lead_suit |-> 0,
                 shape |-> [k \in ShapeSlots |-> 0], relative_hands |-> EmptyHands]
Result(st, ns_tricks, rank_winners) ==
    [st |-> st, ns_tricks |-> ns_tricks, rank_winners |-> rank_winners]
Panicked(st) == Result([st EXCEPT !.panic = TRUE], 0, {})

\* Mutant of is_equivalent: the cards between the two cards may be held by
\* any hand
is_equivalent_apart(card, tried_suit, my_hand, all) == tried_suit # {}
is_equivalent(card, tried_suit, my_hand, all) ==
    LET s == suit_of(card)
        all_suit == suit(all, s)
        my_suit == suit(my_hand, s)
        above == slice(tried_suit, 0, card)
        closest_above == bottom(above)
        below == slice(tried_suit, card + 1, NUM_SUITS * NUM_RANKS)
        closest_below == top(below)
    IN  /\ tried_suit # {}
        /\ \/ /\ above # {}
              /\ slice(all_suit, closest_above + 1, card) = slice(my_suit, closest_above + 1, card)
           \/ /\ below # {}
              /\ slice(all_suit, card + 1, closest_below) = slice(my_suit, card + 1, closest_below)

\* the tried card of the suit that makes is_equivalent return true for card
EquivalentTo(card, tried_suit, my_hand, all) ==
    LET s == suit_of(card)
        all_suit == suit(all, s)
        my_suit == suit(my_hand, s)
        above == slice(tried_suit, 0, card)
        closest_above == bottom(above)
        below == slice(tried_suit, card + 1, NUM_SUITS * NUM_RANKS)
    IN  IF /\ above # {}
           /\ slice(all_suit, closest_above + 1, card) = slice(my_suit, closest_above + 1, card)
        THEN closest_above
        ELSE top(below)

\* Mutant of collect_last_trick: the tricks won before the last trick are
\* left out of the value
collect_last_trick_one(st, depth) ==
    LET ns_tricks_won == st.plays[depth].ns_tricks_won
        seat_to_play == st.plays[depth].seat_to_play
        Card(i) == top(st.hands[(seat_to_play + i) % NUM_SEATS])
        \* the winning (card, seat) after the seats up to i
        w[i \in 0 .. 3] ==
            IF i = 0 THEN [card |-> Card(0), seat |-> seat_to_play]
            ELSE IF wins_over(Card(i), w[i - 1].card, st.trump)
                 THEN [card |-> Card(i), seat |-> (seat_to_play + i) % NUM_SEATS]
                 ELSE w[i - 1]
        winning_card == w[3].card
        has_same_suit == \E i \in 0 .. 3 :
                            Card(i) # winning_card /\ suit_of(Card(i)) = suit_of(winning_card)
    IN  IF has_same_suit /\ winning_card >= 64
        THEN Panicked(st)
        ELSE Result([st EXCEPT !.way = "last_trick"],
                    IF is_ns(w[3].seat) THEN 1 ELSE 0,
                    IF has_same_suit THEN {winning_card} ELSE {})
collect_last_trick(st, depth) ==
    LET ns_tricks_won == st.plays[depth].ns_tricks_won
        seat_to_play == st.plays[depth].seat_to_play
        Card(i) == top(st.hands[(seat_to_play + i) % NUM_SEATS])
        \* the winning (card, seat) after the seats up to i
        w[i \in 0 .. 3] ==
            IF i = 0 THEN [card |-> Card(0), seat |-> seat_to_play]
            ELSE IF wins_over(Card(i), w[i - 1].card, st.trump)
                 THEN [card |-> Card(i), seat |-> (seat_to_play + i) % NUM_SEATS]
                 ELSE w[i - 1]
        winning_card == w[3].card
        has_same_suit == \E i \in 0 .. 3 :
                            Card(i) # winning_card /\ suit_of(Card(i)) = suit_of(winning_card)
    IN  IF has_same_suit /\ winning_card >= 64
        THEN Panicked(st)
        ELSE Result([st EXCEPT !.way = "last_trick"],
                    IF is_ns(w[3].seat) THEN ns_tricks_won + 1 ELSE ns_tricks_won,
                    IF has_same_suit THEN {winning_card} ELSE {})

\* order_cards_static: the ordering of playable is appended to ordered_cards
order_cards_static(ordered_cards, st, depth, playable) ==
    LET trick_idx == depth \div 4
        card_in_trick == depth % 4
        seat_to_play == st.plays[depth].seat_to_play
        winning_play_idx == st.plays[depth - 1].winning_play
    IN  Let(IF card_in_trick = 0
            THEN order_leads(playable, st.hands, seat_to_play, st.trump,
                             st.tricks[trick_idx].all_cards)
            ELSE order_follows(playable, st.hands, seat_to_play, st.trump,
                               st.tricks[trick_idx].lead_suit,
                               st.plays[winning_play_idx].seat_to_play,
                               st.plays[winning_play_idx].card_played,
                               card_in_trick),
            LAMBDA ordered :
            LET f[i \in 0 .. Len(ordered.cards)] ==
                    IF i = 0 THEN ordered_cards ELSE ocAdd(f[i - 1], ordered.cards[i])
            IN  IF ordered.panic THEN [ordered_cards EXCEPT !.panic = TRUE]
                ELSE f[Len(ordered.cards)])

RECURSIVE search_with_cache(_, _, _), search_at_trick_start(_, _, _),
          evaluate_playable_cards(_, _, _), EvalLoop(_, _), play_card_and_search(_, _, _, _),
          EvalStep(_, _, _), EvalFrame(_, _), PruneOrEvaluate(_, _, _, _),
          StorePattern(_, _, _, _), AfterProbe(_, _, _, _), SearchWithPattern(_, _, _),
          TrickStart(_, _, _), Unplay(_, _, _, _, _)

\* The trick winner joins the rank winners when another card of the trick
\* is of its suit (the end of play_card_and_search at the fourth card)
\* Mutant of TrickRankWinner: the rank of the winning card never matters
TrickRankWinner_none(st, depth) == {}
TrickRankWinner(st, depth) ==
    LET winning_play_idx == st.plays[depth].winning_play
        winning_card == st.plays[winning_play_idx].card_played
    IN  IF \E d \in (depth - 3) .. depth :
              d # winning_play_idx
              /\ suit_of(st.plays[d].card_played) = suit_of(winning_card)
        THEN {winning_card} ELSE {}

\* play_card_and_search up to the recursive call: the card is played at depth
\* the log's record of the card played at depth from the position st: the
\* seat and its hand, the card led to the trick, the hands left, and the
\* cards played on the way to this position
CardPlayed(st, depth, card) ==
    [kind |-> "play", depth |-> depth, card |-> card,
     seat |-> st.plays[depth].seat_to_play,
     hand |-> st.hands[st.plays[depth].seat_to_play],
     led |-> IF depth % 4 = 0 THEN card ELSE st.plays[depth - (depth % 4)].card_played,
     hands |-> [st.hands EXCEPT ![st.plays[depth].seat_to_play] = @ \ {card}],
     played |-> {st.plays[d].card_played : d \in 0 .. depth - 1} \cup {card}]
Played(st, depth, card) ==
    LET trick_idx == depth \div 4
        card_in_trick == depth % 4
        seat_to_play == st.plays[depth].seat_to_play
        current_winner_idx == st.plays[depth - 1].winning_play
        current_winner_card == st.plays[current_winner_idx].card_played
        winning_play ==
            IF card_in_trick = 0 THEN depth
            ELSE IF wins_over(card, current_winner_card, st.trump) THEN depth
            ELSE current_winner_idx
    IN  [st EXCEPT
           !.plays[depth].card_played = card,
           !.plays[depth].winning_play = winning_play,
           !.hands[seat_to_play] = @ \ {card},
           !.tricks[trick_idx].lead_suit =
               IF card_in_trick = 0 THEN suit_of(card) ELSE @,
           !.log = Append(@, CardPlayed(st, depth, card))]
\* play_card_and_search after the recursive call returned result: the card
\* goes back to the hand.  hands are the hands play_card_and_search was
\* called with; restored (a history field, no field of Search) records that
\* every call so far returned with the hands it was called with.
\* log (a history field) is the sequence of what the search did so far;
\* NodeReturn is its record of the node at depth returning result.  way (a
\* history field) names the return statement the last node returned by.
NodeReturn(result, depth) ==
    [kind |-> "return", depth |-> depth, value |-> result.ns_tricks,
     ns_tricks_won |-> result.st.plays[depth].ns_tricks_won,
     remaining |-> result.st.num_tricks - depth \div 4,
     way |-> result.st.way]
\* Mutant of Unplay: the card played is not put back into the hand
Unplay_keep(result, depth, hands, seat_to_play, card) ==
    IF result.st.panic THEN result
    ELSE Result([result.st EXCEPT !.restored = @ /\ result.st.hands = hands,
                                  !.log = Append(@, NodeReturn(result, depth + 1))],
                result.ns_tricks,
                IF depth % 4 = 3
                THEN result.rank_winners \cup TrickRankWinner(result.st, depth)
                ELSE result.rank_winners)
Unplay(result, depth, hands, seat_to_play, card) ==
    IF result.st.panic THEN result
    ELSE Result([result.st EXCEPT
                    !.hands[seat_to_play] = @ \cup {card},
                    !.restored = @ /\ [result.st.hands EXCEPT
                                          ![seat_to_play] = @ \cup {card}] = hands,
                    !.log = Append(@, NodeReturn(result, depth + 1))],
                result.ns_tricks,
                IF depth % 4 = 3
                THEN result.rank_winners \cup TrickRankWinner(result.st, depth)
                ELSE result.rank_winners)
play_card_and_search(st, depth, card, beta) ==
    Unplay(search_with_cache(Played(st, depth, card), depth + 1, beta),
           depth, st.hands, st.plays[depth].seat_to_play, card)

\* The loop of evaluate_playable_cards.  The frame f holds its locals: depth,
\* beta, seat_to_play, ns_tricks_won, playable, cutoff_hash, cutoff_card,
\* all_cards, my_hand, ordered_cards, remaining_playable, i, best,
\* tried_cards, rank_winners, min_relevant_ranks; node (no local) is the
\* number of the call among the calls of evaluate_playable_cards, cached (no
\* local) the card the cutoff cache holds for cutoff_hash and seat_to_play
\* when the call starts.
\* Mutant of OrderRemaining: all the playable cards are ordered again
OrderRemaining_all(st, f) ==
    IF f.remaining_playable = {} THEN f
    ELSE [f EXCEPT
            !.ordered_cards = order_cards_static(@, st, f.depth, f.playable),
            !.remaining_playable = {}]
\* OrderRemaining is the step "order the remaining playable cards" that ends
\* every iteration.
OrderRemaining(st, f) ==
    IF f.remaining_playable = {} THEN f
    ELSE [f EXCEPT
            !.ordered_cards = order_cards_static(@, st, f.depth, f.remaining_playable),
            !.remaining_playable = {}]
\* the card of this iteration, and whether the iteration skips it
NextCard(f) == f.ordered_cards.cards[f.i + 1]
\* Mutant of Skipped: the rank test is made when NO_RANK_SKIP is set
Skipped_set(st, f) ==
    LET card == NextCard(f)
        s == suit_of(card)
    IN  \/ st.no_rank_skip /\ rank_of(card) < f.min_relevant_ranks[s]
        \/ is_equivalent(card, suit(f.tried_cards, s), f.my_hand, f.all_cards)
Skipped(st, f) ==
    LET card == NextCard(f)
        s == suit_of(card)
    IN  \/ ~st.no_rank_skip /\ rank_of(card) < f.min_relevant_ranks[s]
        \/ is_equivalent(card, suit(f.tried_cards, s), f.my_hand, f.all_cards)
\* min_relevant_ranks[suit] after a card of the rank was searched without a
\* cutoff, suit_rank_winners being the rank winners of the suit that the
\* search of the card returned
\* Mutant of MinRelevantRank: the rank of the lowest rank winner, whatever
\* the card searched and the value before
MinRelevantRank_lowest(old_min, rank, suit_rank_winners) ==
    IF suit_rank_winners = {} THEN NUM_RANKS ELSE rank_of(bottom(suit_rank_winners))
MinRelevantRank(old_min, rank, suit_rank_winners) ==
    LET bottom_rank == rank_of(bottom(suit_rank_winners))
    IN  IF suit_rank_winners = {} THEN NUM_RANKS
        ELSE IF rank < bottom_rank THEN Max(old_min, bottom_rank)
        ELSE old_min
\* the log's record of the card the node of frame f skips: whether
\* is_equivalent was called and returned true, the tried card that made it
\* so, and the position (the hands, the cards played to the trick, the seat)
SkippedCard(st, f) ==
    LET card == NextCard(f)
        s == suit_of(card)
        first == f.depth - (f.depth % 4)
        equivalent == st.no_rank_skip \/ rank_of(card) >= f.min_relevant_ranks[s]
    IN  [kind |-> "skip", node |-> f.node, depth |-> f.depth, seat |-> f.seat_to_play,
         card |-> card, equivalent |-> equivalent,
         tried |-> IF equivalent
                   THEN EquivalentTo(card, suit(f.tried_cards, s), f.my_hand, f.all_cards)
                   ELSE NoCard,
         hands |-> st.hands, trump |-> st.trump,
         trick |-> [k \in 1 .. f.depth % 4 |->
                       [card |-> st.plays[first + k - 1].card_played,
                        seat |-> st.plays[first + k - 1].seat_to_play]]]
\* the rest of an iteration, after play_card_and_search returned branch_result
\* the log's record of the card evaluated at the node of frame f: the best
\* value after it, and what the cutoff cache then returns for the hash and
\* the seat of the node
Evaluated(st, f, card, best, cache, suit_rank_winners, new_min) ==
    [kind |-> "eval", node |-> f.node, depth |-> f.depth, seat |-> f.seat_to_play,
     card |-> card, best |-> best, beta |-> f.beta, no_tt |-> st.no_tt,
     lookup |-> CutoffLookup(cache, f.cutoff_hash, f.seat_to_play),
     i |-> f.i, playable |-> f.playable, cached |-> f.cached,
     ordered |-> f.ordered_cards.cards,
     no_rank_skip |-> st.no_rank_skip, suit_rank_winners |-> suit_rank_winners,
     old_min |-> f.min_relevant_ranks[suit_of(card)], new_min |-> new_min]
\* the log's record of the loop of the node of frame f ending: the cards it
\* went through, and whether adding a card to them panicked
Ordered(f) ==
    [kind |-> "order", node |-> f.node, depth |-> f.depth, playable |-> f.playable,
     cached |-> f.cached, ordered |-> f.ordered_cards.cards,
     panic |-> f.ordered_cards.panic]
\* Mutant of EvalStep: a North-South node goes on until best exceeds beta
EvalStep_late(f, card, branch_result) ==
    IF branch_result.st.panic THEN branch_result
    ELSE
    LET st1 == branch_result.st
        s == suit_of(card)
        rank == rank_of(card)
        maximizing == is_ns(f.seat_to_play)
        score == branch_result.ns_tricks
        branch_rank_winners == branch_result.rank_winners
        best == IF maximizing THEN Max(f.best, score) ELSE Min(f.best, score)
        cut == IF maximizing THEN best > f.beta ELSE best < f.beta
        suit_rank_winners == suit(branch_rank_winners, s)
        new_min == MinRelevantRank(f.min_relevant_ranks[s], rank, suit_rank_winners)
        f1 == [f EXCEPT !.tried_cards = @ \cup {card},
                        !.best = best,
                        !.rank_winners = @ \cup branch_rank_winners,
                        !.min_relevant_ranks[s] = new_min]
        cache == IF cut /\ f.cutoff_card # card /\ ~st1.no_tt
                 THEN CutoffStore(st1.cutoff_cache, f.cutoff_hash, f.seat_to_play, card)
                 ELSE st1.cutoff_cache
        st2 == [st1 EXCEPT !.cutoff_cache = cache,
                           !.log = Append(@, Evaluated(st1, f, card, best, cache,
                                                       suit_rank_winners, new_min))]
    IN  IF cut
        THEN Result([st2 EXCEPT !.way = "cutoff"], best, branch_rank_winners)
        ELSE EvalLoop(st2, [OrderRemaining(st2, f1) EXCEPT !.i = @ + 1])
EvalStep(f, card, branch_result) ==
    IF branch_result.st.panic THEN branch_result
    ELSE
    LET st1 == branch_result.st
        s == suit_of(card)
        rank == rank_of(card)
        maximizing == is_ns(f.seat_to_play)
        score == branch_result.ns_tricks
        branch_rank_winners == branch_result.rank_winners
        best == IF maximizing THEN Max(f.best, score) ELSE Min(f.best, score)
        cut == IF maximizing THEN best >= f.beta ELSE best < f.beta
        suit_rank_winners == suit(branch_rank_winners, s)
        new_min == MinRelevantRank(f.min_relevant_ranks[s], rank, suit_rank_winners)
        f1 == [f EXCEPT !.tried_cards = @ \cup {card},
                        !.best = best,
                        !.rank_winners = @ \cup branch_rank_winners,
                        !.min_relevant_ranks[s] = new_min]
        cache == IF cut /\ f.cutoff_card # card /\ ~st1.no_tt
                 THEN CutoffStore(st1.cutoff_cache, f.cutoff_hash, f.seat_to_play, card)
                 ELSE st1.cutoff_cache
        st2 == [st1 EXCEPT !.cutoff_cache = cache,
                           !.log = Append(@, Evaluated(st1, f, card, best, cache,
                                                       suit_rank_winners, new_min))]
    IN  IF cut
        THEN Result([st2 EXCEPT !.way = "cutoff"], best, branch_rank_winners)
        ELSE EvalLoop(st2, [OrderRemaining(st2, f1) EXCEPT !.i = @ + 1])
EvalLoop(st, f) ==
    IF f.ordered_cards.panic \/ f.i >= Len(f.ordered_cards.cards)
    THEN IF f.ordered_cards.panic
         THEN Panicked([st EXCEPT !.log = Append(@, Ordered(f))])
         ELSE Result([st EXCEPT !.way = "full", !.log = Append(@, Ordered(f))],
                     f.best, f.rank_winners)
    ELSE IF Skipped(st, f)
    THEN EvalLoop([st EXCEPT !.log = Append(@, SkippedCard(st, f))],
                  [OrderRemaining(st, f) EXCEPT
                      !.tried_cards = @ \cup {NextCard(f)}, !.i = @ + 1])
    ELSE EvalStep(f, NextCard(f), play_card_and_search(st, f.depth, NextCard(f), f.beta))

\* evaluate_playable_cards up to its loop: the locals of the call
NewFrame(st, depth, beta) ==
    LET trick_idx == depth \div 4
        card_in_trick == depth % 4
        ns_tricks_won == st.plays[depth].ns_tricks_won
        seat_to_play == st.plays[depth].seat_to_play
        lead_suit == IF card_in_trick = 0 THEN NoSuit ELSE st.tricks[trick_idx].lead_suit
        winning_play_idx == st.plays[depth - 1].winning_play
        winning_card == IF card_in_trick > 0 THEN st.plays[winning_play_idx].card_played ELSE 0
        winning_seat == IF card_in_trick > 0 THEN st.plays[winning_play_idx].seat_to_play ELSE 0
        all == st.tricks[trick_idx].all_cards
    IN  Let(get_playable_cards(st.hands, seat_to_play, lead_suit), LAMBDA playable :
        Let(build_cutoff_index(st.hands, seat_to_play, card_in_trick,
                               IF lead_suit = NoSuit THEN 0 ELSE lead_suit,
                               winning_card, winning_seat, st.trump, all),
            LAMBDA cutoff_hash :
        Let(IF ~st.no_tt THEN CutoffLookup(st.cutoff_cache, cutoff_hash, seat_to_play)
            ELSE NoCard,
            LAMBDA cutoff_card :
        LET has_cutoff == cutoff_card # NoCard /\ have(playable, cutoff_card)
        IN  [depth |-> depth, beta |-> beta, seat_to_play |-> seat_to_play,
             node |-> st.nodes + 1,
             ns_tricks_won |-> ns_tricks_won, playable |-> playable,
             cutoff_hash |-> cutoff_hash,
             cutoff_card |-> cutoff_card, all_cards |-> all,
             cached |-> CutoffLookup(st.cutoff_cache, cutoff_hash, seat_to_play),
             my_hand |-> st.hands[seat_to_play],
             ordered_cards |->
                 IF has_cutoff THEN ocAdd(NewOrdered, cutoff_card)
                 ELSE order_cards_static(NewOrdered, st, depth, playable),
             remaining_playable |-> IF has_cutoff THEN playable \ {cutoff_card} ELSE {},
             i |-> 0,
             best |-> IF is_ns(seat_to_play) THEN 0 ELSE st.num_tricks,
             tried_cards |-> {}, rank_winners |-> {},
             min_relevant_ranks |-> [x \in Suits |-> 0]])))
EvalFrame(st, f) ==
    IF f.playable = {} THEN Result([st EXCEPT !.way = "no_cards"], f.ns_tricks_won, {})
    ELSE EvalLoop(st, f)
evaluate_playable_cards(st0, depth, beta) ==
    EvalFrame([st0 EXCEPT !.nodes = @ + 1], NewFrame(st0, depth, beta))

\* The block of search_at_trick_start that pruning guards: cut is TRUE when
\* it returns, and result is what it returns then
NoPrune(st) == [cut |-> FALSE, result |-> Result(st, 0, {})]
QuickBounds(st, depth, beta) ==
    LET trick_idx == depth \div 4
        ns_tricks_won == st.plays[depth].ns_tricks_won
        seat_to_play == st.plays[depth].seat_to_play
        remaining == st.num_tricks - trick_idx
        all == all_cards(st.hands)
        has_trumps == st.trump < NOTRUMP /\ suit(all, st.trump) # {}
        Return(result) == [cut |-> TRUE, result |-> [result EXCEPT !.st.way = "pruning"]]
    IN  Let(fast_tricks(st.hands, st.trump, st.num_tricks, seat_to_play, depth), LAMBDA fast :
        Let(top_trump_tricks_opponent(st.hands, st.trump, seat_to_play), LAMBDA top_tricks :
        Let(IF has_trumps
            THEN IF top_tricks.n > 0 THEN top_tricks
                 ELSE slow_trump_tricks_opponent(st.hands, st.trump, seat_to_play)
            ELSE slow_tricks_opponent(st.hands, seat_to_play),
            LAMBDA slow :
        IF is_ns(seat_to_play) /\ ns_tricks_won + fast.n >= beta
        THEN Return(Result(st, ns_tricks_won + fast.n, fast.rank_winners))
        ELSE IF ~is_ns(seat_to_play) /\ ns_tricks_won + remaining < fast.n
        THEN Return(Panicked(st))
        ELSE IF ~is_ns(seat_to_play) /\ ns_tricks_won + remaining - fast.n < beta
        THEN Return(Result(st, ns_tricks_won + remaining - fast.n, fast.rank_winners))
        ELSE IF slow.n > 0 /\ is_ns(seat_to_play) /\ ns_tricks_won + remaining < slow.n
        THEN Return(Panicked(st))
        ELSE IF slow.n > 0 /\ is_ns(seat_to_play) /\ ns_tricks_won + remaining - slow.n < beta
        THEN Return(Result(st, ns_tricks_won + remaining - slow.n, slow.rank_winners))
        ELSE IF slow.n > 0 /\ ~is_ns(seat_to_play) /\ ns_tricks_won + slow.n >= beta
        THEN Return(Result(st, ns_tricks_won + slow.n, slow.rank_winners))
        ELSE NoPrune(st))))
PruneOrEvaluate(st, depth, beta, quick) ==
    IF quick.cut THEN quick.result ELSE evaluate_playable_cards(st, depth, beta)
search_at_trick_start(st, depth, beta) ==
    PruneOrEvaluate(st, depth, beta,
                    IF st.no_pruning THEN NoPrune(st) ELSE QuickBounds(st, depth, beta))

\* The part of search_with_cache from the pattern cache lookup on, at a trick
\* start whose tricks[trick_idx] is set.  PatternProbe is the lookup: the
\* shape value, the match and its rank winners.
PatternProbe(st, depth, beta) ==
    LET trick_idx == depth \div 4
        ns_tricks_won == st.plays[depth].ns_tricks_won
        seat_to_play == st.plays[depth].seat_to_play
        remaining == st.num_tricks - trick_idx
        all == st.tricks[trick_idx].all_cards
        rel_beta == beta - ns_tricks_won
        new_pattern == NewPattern(st.tricks[trick_idx].relative_hands,
                                  [lower |-> 0, upper |-> remaining])
    IN  Let(ShapeValue(st.tricks[trick_idx].shape), LAMBDA shape_value :
        Let(PatternCacheLookup(st.pattern_cache, shape_value, seat_to_play), LAMBDA found :
        Let(IF ~st.no_tt /\ found.found
            THEN ShapeEntryLookup(found.entry, new_pattern, rel_beta)
            ELSE NoMatch,
            LAMBDA hit :
            [shape_value |-> shape_value, hit |-> hit, tree |-> found.entry.pattern,
             rank_winners |-> get_rank_winners(NewPattern(hit.hands, hit.bounds), all)])))
\* the end of the trick-start search: the bounds of result go to the pattern
\* cache
StorePattern(depth, beta, probe, result) ==
    LET st1 == result.st
        trick_idx == depth \div 4
        ns_tricks_won == st1.plays[depth].ns_tricks_won
        seat_to_play == st1.plays[depth].seat_to_play
        remaining == st1.num_tricks - trick_idx
        all == st1.tricks[trick_idx].all_cards
        relative_tricks == result.ns_tricks - ns_tricks_won
        bounds == IF result.ns_tricks < beta
                  THEN [lower |-> 0, upper |-> relative_tricks]
                  ELSE [lower |-> relative_tricks, upper |-> remaining]
        \* the log's record of the bounds stored
        stored == [kind |-> "store", depth |-> depth, relative_tricks |-> relative_tricks,
                   bounds |-> bounds, remaining |-> remaining]
    IN  IF st1.panic \/ st1.no_tt \/ probe.hit.found THEN result
        ELSE IF relative_tricks < 0 THEN Panicked([st1 EXCEPT !.log = Append(@, stored)])
        ELSE
        Let(compute_pattern_hands(st1.tricks[trick_idx].relative_hands, all,
                                  result.rank_winners),
            LAMBDA ph :
            Result([st1 EXCEPT !.pattern_cache =
                      PatternCacheUpdate(@, probe.shape_value, seat_to_play,
                                         NewPattern(ph.pattern_hands, bounds)),
                               !.log = Append(@, stored)],
                   result.ns_tricks, ph.extended_rank_winners))
AfterProbe(st, depth, beta, probe) ==
    LET ns_tricks_won == st.plays[depth].ns_tricks_won
        adj_lower == probe.hit.bounds.lower + ns_tricks_won
        adj_upper == probe.hit.bounds.upper + ns_tricks_won
    IN  IF probe.hit.found /\ adj_lower >= beta
        THEN Result([st EXCEPT !.way = "hit"], adj_lower, probe.rank_winners)
        ELSE IF probe.hit.found /\ adj_upper < beta
        THEN Result([st EXCEPT !.way = "hit"], adj_upper, probe.rank_winners)
        ELSE StorePattern(depth, beta, probe, search_at_trick_start(st, depth, beta))
\* the log's record of a lookup that matched
Hit(st, depth, beta, probe) ==
    [kind |-> "hit", depth |-> depth, beta |-> beta,
     ns_tricks_won |-> st.plays[depth].ns_tricks_won,
     probe |-> st.tricks[depth \div 4].relative_hands,
     hit |-> probe.hit, tree |-> probe.tree]
LogProbe(st, depth, beta, probe) ==
    AfterProbe(IF probe.hit.found THEN [st EXCEPT !.log = Append(@, Hit(st, depth, beta, probe))]
               ELSE st,
               depth, beta, probe)
SearchWithPattern(st, depth, beta) ==
    LogProbe(st, depth, beta, PatternProbe(st, depth, beta))

\* tricks[trick_idx] at a trick start: all_cards, and the shape and relative
\* hands from scratch at depth 0 and from the previous trick otherwise
TrickAtStart(st, depth) ==
    LET trick_idx == depth \div 4
        all == all_cards(st.hands)
        prev == st.tricks[trick_idx - 1]
        prev_start == (trick_idx - 1) * 4
    IN  IF depth = 0
        THEN [st.tricks[trick_idx] EXCEPT
                !.all_cards = all,
                !.shape = ShapeFromHands(st.hands),
                !.relative_hands = RelativeCompute(@, st.hands, all, 0)]
        ELSE [st.tricks[trick_idx] EXCEPT
                !.all_cards = all,
                !.shape = ShapePlayCards(prev.shape, st.plays[prev_start].seat_to_play,
                                         st.plays[prev_start].card_played,
                                         st.plays[prev_start + 1].card_played,
                                         st.plays[prev_start + 2].card_played,
                                         st.plays[prev_start + 3].card_played),
                !.relative_hands = RelativeUpdate(prev.relative_hands, st.hands,
                                                  prev.all_cards, all)]

\* search_with_cache.  EnterPly sets plays[depth] from the play before it;
\* TrickStart is the part that runs when the ply starts a trick.
\* the log's record of the trick start at depth > 0: the trick before it
\* as played, the count of tricks before that trick, and plays[depth] as set
TrickStarted(st, depth) ==
    [kind |-> "trick_start", depth |-> depth, trump |-> st.trump,
     trick |-> [i \in 1 .. 4 |-> [card |-> st.plays[depth - 5 + i].card_played,
                                  seat |-> st.plays[depth - 5 + i].seat_to_play]],
     before |-> st.plays[depth - 4].ns_tricks_won,
     seat_to_play |-> st.plays[depth].seat_to_play,
     ns_tricks_won |-> st.plays[depth].ns_tricks_won]
\* Mutant of EnterPly: the seat that led the last trick leads the next one
EnterPly_leader(st0, depth) ==
    LET prev == st0.plays[depth - 1]
        prev_winner_seat == st0.plays[prev.winning_play].seat_to_play
    IN  IF depth % 4 # 0
        THEN [st0 EXCEPT !.plays[depth].ns_tricks_won = prev.ns_tricks_won,
                         !.plays[depth].seat_to_play = next_seat(prev.seat_to_play)]
        ELSE IF depth > 0
        THEN Let([st0 EXCEPT !.plays[depth].ns_tricks_won =
                                 prev.ns_tricks_won + (IF is_ns(prev_winner_seat) THEN 1 ELSE 0),
                             !.plays[depth].seat_to_play = st0.plays[depth - 4].seat_to_play],
                 LAMBDA st : [st EXCEPT !.log = Append(@, TrickStarted(st, depth))])
        ELSE st0
EnterPly(st0, depth) ==
    LET prev == st0.plays[depth - 1]
        prev_winner_seat == st0.plays[prev.winning_play].seat_to_play
    IN  IF depth % 4 # 0
        THEN [st0 EXCEPT !.plays[depth].ns_tricks_won = prev.ns_tricks_won,
                         !.plays[depth].seat_to_play = next_seat(prev.seat_to_play)]
        ELSE IF depth > 0
        THEN Let([st0 EXCEPT !.plays[depth].ns_tricks_won =
                                 prev.ns_tricks_won + (IF is_ns(prev_winner_seat) THEN 1 ELSE 0),
                             !.plays[depth].seat_to_play = prev_winner_seat],
                 LAMBDA st : [st EXCEPT !.log = Append(@, TrickStarted(st, depth))])
        ELSE st0
\* the log's record of tricks[trick_idx] as set at the trick start at depth,
\* of the hands there, and of whether the pattern cache is consulted
TrickEntered(st, depth) ==
    [kind |-> "trick", depth |-> depth, hands |-> st.hands,
     all_cards |-> st.tricks[depth \div 4].all_cards,
     shape |-> st.tricks[depth \div 4].shape,
     relative_hands |-> st.tricks[depth \div 4].relative_hands,
     consulted |-> ~st.no_tt]
TrickStart(st, depth, beta) ==
    LET trick_idx == depth \div 4
        ns_tricks_won == st.plays[depth].ns_tricks_won
        remaining == st.num_tricks - trick_idx
    IN  IF ns_tricks_won >= beta
        THEN Result([st EXCEPT !.way = "quick_high"], ns_tricks_won, {})
        ELSE IF remaining < 0 THEN Panicked(st)
        ELSE IF ns_tricks_won + remaining < beta
        THEN Result([st EXCEPT !.way = "quick_low"], ns_tricks_won + remaining, {})
        ELSE IF remaining = 1 THEN collect_last_trick(st, depth)
        ELSE Let([st EXCEPT !.tricks[trick_idx] = TrickAtStart(st, depth)], LAMBDA st1 :
                 SearchWithPattern([st1 EXCEPT !.log = Append(@, TrickEntered(st1, depth))],
                                   depth, beta))
search_with_cache(st0, depth, beta) ==
    IF st0.panic \/ depth \notin Depths
    THEN IF st0.panic THEN Result(st0, 0, {}) ELSE Panicked(st0)
    ELSE IF depth % 4 # 0
    THEN evaluate_playable_cards(EnterPly(st0, depth), depth, beta)
    ELSE TrickStart(EnterPly(st0, depth), depth, beta)

\* Search::new_with_partial_trick.  A PartialTrick is the sequence of its
\* plays (card, seat); None and the empty partial trick start alike, so both
\* are the empty sequence.
MaxHandSize(hands) ==
    CHOOSE n \in {size(hands[s]) : s \in Seats} : \A s \in Seats : size(hands[s]) <= n
\* Mutant of PartialWinner: the card led holds the trick
PartialWinner_lead(pt, trump, i) == 0
\* winning_play after the first i plays of the partial trick (0-based index)
PartialWinner(pt, trump, i) ==
    LET w[k \in 0 .. i] ==
            IF k <= 1 THEN 0
            ELSE LET c1 == pt[k].card
                     c2 == pt[w[k - 1] + 1].card
                     card_wins == IF suit_of(c1) = suit_of(c2) THEN higher_rank(c1, c2)
                                  ELSE IF trump < NOTRUMP THEN suit_of(c1) = trump
                                  ELSE FALSE
                 IN  IF card_wins THEN k - 1 ELSE w[k - 1]
    IN  w[i]
new_with_partial_trick(hands, trump, initial_leader, cutoff_cache, pattern_cache, partial_trick, flags, nodes) ==
    LET pt == partial_trick
        next_depth == Len(pt)
        played == {pt[i].card : i \in 1 .. Len(pt)}
        all == all_cards(hands) \cup played
        full_hands == [seat \in Seats |->
                          hands[seat] \cup {pt[i].card : i \in {j \in 1 .. Len(pt) : pt[j].seat = seat}}]
        plays0 == [d \in Depths |-> DefaultPlayState]
        tricks0 == [t \in TrickIdxs |-> DefaultTrick]
        plays == IF pt = <<>>
                 THEN [plays0 EXCEPT ![0].seat_to_play = initial_leader]
                 ELSE [d \in Depths |->
                         IF d < next_depth
                         THEN [ns_tricks_won |-> 0, seat_to_play |-> pt[d + 1].seat,
                               card_played |-> pt[d + 1].card,
                               winning_play |-> PartialWinner(pt, trump, d + 1)]
                         ELSE IF d = next_depth
                         THEN [ns_tricks_won |-> 0,
                               seat_to_play |-> next_seat(pt[Len(pt)].seat),
                               card_played |-> 0,
                               winning_play |-> PartialWinner(pt, trump, Len(pt))]
                         ELSE DefaultPlayState]
        tricks == IF pt = <<>> THEN tricks0
                  ELSE [tricks0 EXCEPT ![0] =
                          [all_cards |-> all, lead_suit |-> suit_of(pt[1].card),
                           shape |-> ShapeFromHands(full_hands),
                           relative_hands |-> RelativeCompute(EmptyHands, full_hands, all, 0)]]
    IN  [hands |-> hands, trump |-> trump, num_tricks |-> MaxHandSize(hands),
         plays |-> plays, tricks |-> tricks,
         cutoff_cache |-> cutoff_cache, pattern_cache |-> pattern_cache,
         start_depth |-> next_depth,
         no_tt |-> flags.no_tt, no_pruning |-> flags.no_pruning,
         no_rank_skip |-> flags.no_rank_skip,
         nodes |-> nodes, restored |-> TRUE, log |-> <<>>, way |-> "none",
         panic |-> \E i \in 1 .. Len(pt) : pt[i].seat \notin Seats \/ pt[i].card \notin AllCards]
\* Search::search
search(st, beta) == search_with_cache(st, st.start_depth, beta)

\* ------------------------------------------------------------------------
\* bridge_solver.rs: Solver
\* ------------------------------------------------------------------------
\* Option<Solver>: some = FALSE is None
NoSolver == [some |-> FALSE, hands |-> EmptyHands, trump |-> NOTRUMP,
             initial_leader |-> WEST, num_tricks |-> 0]
SolverNew(hands, trump, initial_leader) ==
    [some |-> TRUE, hands |-> hands, trump |-> trump, initial_leader |-> initial_leader,
     num_tricks |-> num_tricks(hands)]
\* Mutant of new_mid_trick: a complete trick of four plays is accepted
new_mid_trick_four(hands, trump, partial_trick) ==
    IF partial_trick = <<>> \/ Len(partial_trick) > 4 THEN NoSolver
    ELSE [some |-> TRUE, hands |-> hands, trump |-> trump,
          initial_leader |-> partial_trick[1].seat,
          num_tricks |-> MaxHandSize(hands)]
new_mid_trick(hands, trump, partial_trick) ==
    IF partial_trick = <<>> \/ Len(partial_trick) > 3 THEN NoSolver
    ELSE [some |-> TRUE, hands |-> hands, trump |-> trump,
          initial_leader |-> partial_trick[1].seat,
          num_tricks |-> MaxHandSize(hands)]

guess_tricks(solver) ==
    LET h == solver.hands
        ns_points == points(h[NORTH]) + points(h[SOUTH])
        ew_points == points(h[EAST]) + points(h[WEST])
        n_trumps == size(suit(h[NORTH], solver.trump))
        s_trumps == size(suit(h[SOUTH], solver.trump))
        e_trumps == size(suit(h[EAST], solver.trump))
        w_trumps == size(suit(h[WEST], solver.trump))
        ns_max_trumps == Max(n_trumps, s_trumps)
        ew_max_trumps == Max(e_trumps, w_trumps)
    IN  IF solver.trump >= NOTRUMP
        THEN IF ns_points * 2 < ew_points THEN 0
             ELSE IF ns_points < ew_points THEN solver.num_tricks \div 2 + 1
             ELSE solver.num_tricks
        ELSE IF /\ ns_points < ew_points
                /\ \/ ns_max_trumps < ew_max_trumps
                   \/ /\ ns_max_trumps = ew_max_trumps
                      /\ n_trumps + s_trumps < e_trumps + w_trumps
             THEN 0
             ELSE solver.num_tricks

\* The locals of mtdf_search_with_caches_and_partial before its loop.
\* betas (the betas of the iterations made) and restored (every search so
\* far returned with the hands it was given) are history fields.
MtdfStart(solver, cutoff_cache, pattern_cache) ==
    [hands |-> solver.hands, lower |-> 0, upper |-> solver.num_tricks,
     ns_tricks |-> guess_tricks(solver),
     cutoff_cache |-> cutoff_cache, pattern_cache |-> pattern_cache,
     nodes |-> 0, panic |-> FALSE, betas |-> <<>>, restored |-> TRUE, log |-> <<>>]
\* Mutant of MtdfBeta: beta is always one more than the last value
MtdfBeta_up(m) == m.ns_tricks + 1
\* the beta of the next iteration
MtdfBeta(m) == IF m.ns_tricks = m.lower THEN m.ns_tricks + 1 ELSE m.ns_tricks
\* the locals after searcher.search(beta) returned r
MtdfUpdate(m, beta, r) ==
    [m EXCEPT !.hands = r.st.hands,
              !.cutoff_cache = r.st.cutoff_cache,
              !.pattern_cache = r.st.pattern_cache,
              !.nodes = r.st.nodes,
              !.panic = r.st.panic,
              !.restored = @ /\ r.st.restored /\ r.st.hands = m.hands,
              !.log = IF r.st.panic THEN r.st.log
                      ELSE Append(r.st.log, NodeReturn(r, r.st.start_depth)),
              !.ns_tricks = r.ns_tricks,
              !.betas = Append(@, beta),
              !.upper = IF r.ns_tricks < beta THEN r.ns_tricks ELSE @,
              !.lower = IF r.ns_tricks < beta THEN @ ELSE r.ns_tricks]
\* one iteration of the while loop of mtdf_search_with_caches_and_partial
MtdfStep(solver, partial_trick, flags, m) ==
    MtdfUpdate(m, MtdfBeta(m),
               search(new_with_partial_trick(m.hands, solver.trump, solver.initial_leader,
                                             m.cutoff_cache, m.pattern_cache,
                                             partial_trick, flags, m.nodes),
                      MtdfBeta(m)))
\* The while loop of mtdf_search_with_caches_and_partial
RECURSIVE MtdfLoop(_, _, _, _)
MtdfLoop(solver, partial_trick, flags, m) ==
    IF m.panic \/ ~(m.lower < m.upper) THEN m
    ELSE MtdfLoop(solver, partial_trick, flags, MtdfStep(solver, partial_trick, flags, m))
\* solve_with_caches_and_partial: the record of the finished loop; its lower
\* is the value returned
solve_with_caches_and_partial(solver, cutoff_cache, pattern_cache, partial_trick, flags) ==
    MtdfLoop(solver, partial_trick, flags, MtdfStart(solver, cutoff_cache, pattern_cache))
CACHE_BITS == 16
FreshCutoffCache == NewCutoffCache(CACHE_BITS)
FreshPatternCache == NewPatternCache(CACHE_BITS)

\* ------------------------------------------------------------------------
\* The double-dummy value (the rules of play, tests.rs expects its values):
\* the number of tricks North-South win from a position under minimax play.
\* trick is the sequence of (card, seat) played to the current trick.
\* ------------------------------------------------------------------------
\* The seat that wins a complete trick: the highest trump played or, if no
\* trump was played, the highest card of the led suit
TrickWinner(trick, trump) ==
    LET led == suit_of(trick[1].card)
        trumps == {i \in 1 .. 4 : trump < NOTRUMP /\ suit_of(trick[i].card) = trump}
        cands == IF trumps # {} THEN trumps ELSE {i \in 1 .. 4 : suit_of(trick[i].card) = led}
        best == CHOOSE i \in cands : \A j \in cands : trick[i].card <= trick[j].card
    IN  trick[best].seat
LegalCards(hands, seat, trick) ==
    IF trick # <<>> /\ suit(hands[seat], suit_of(trick[1].card)) # {}
    THEN suit(hands[seat], suit_of(trick[1].card))
    ELSE hands[seat]
SetMax(S) == CHOOSE x \in S : \A y \in S : y <= x
SetMin(S) == CHOOSE x \in S : \A y \in S : x <= y
RECURSIVE DoubleDummy(_, _, _, _)
DoubleDummy(hands, trump, trick, seat) ==
    IF Len(trick) = 4
    THEN LET w == TrickWinner(trick, trump)
         IN  (IF is_ns(w) THEN 1 ELSE 0) + DoubleDummy(hands, trump, <<>>, w)
    ELSE IF hands[seat] = {} THEN 0
    ELSE LET values == { DoubleDummy([hands EXCEPT ![seat] = @ \ {c}], trump,
                                     Append(trick, [card |-> c, seat |-> seat]),
                                     next_seat(seat))
                         : c \in LegalCards(hands, seat, trick) }
         IN  IF is_ns(seat) THEN SetMax(values) ELSE SetMin(values)

\* ------------------------------------------------------------------------
\* The driver.  It has the shape of main in bin/solver-diag and of solve_deal
\* in bin/bridge-solver: the switches are set while the arguments are read,
\* then caches are created, solvers are constructed over one Hands value
\* and solved with those caches; tests.rs and the tests of bridge_solver.rs
\* construct a solver from a test case and call solve or solve_mid_trick.
\* ------------------------------------------------------------------------
TWO == 0
THREE == 1
FOUR == 2
FIVE == 3
SIX == 4
SEVEN == 5
EIGHT == 6
NINE == 7
JACK == 9
QUEEN == 10
KING == 11
ACE == 12
\* Hands::from_pbn of one hand: the ranks held in spades, hearts, diamonds, clubs
Hand(s, h, d, c) ==
    {card_of(SPADE, r) : r \in s} \cup {card_of(HEART, r) : r \in h}
        \cup {card_of(DIAMOND, r) : r \in d} \cup {card_of(CLUB, r) : r \in c}
Deal(w, n, e, s) == [seat \in Seats |-> <<w, n, e, s>>[seat + 1]]
Case(hands, trump, leader) == [hands |-> hands, trump |-> trump, leader |-> leader]

\* W:.K..J N:...KQ E:.T..A S:.AQ..
DealA == Deal(Hand({}, {KING}, {}, {JACK}),
              Hand({}, {}, {}, {KING, QUEEN}),
              Hand({}, {TEN}, {}, {ACE}),
              Hand({}, {ACE, QUEEN}, {}, {}))
\* W:.AQ.. N:K.K.. E:..AK. S:AQ...
DealB == Deal(Hand({}, {ACE, QUEEN}, {}, {}),
              Hand({KING}, {KING}, {}, {}),
              Hand({}, {}, {ACE, KING}, {}),
              Hand({ACE, QUEEN}, {}, {}, {}))
\* W:.K..A N:A.A.. E:K..K. S:..A.K
DealC == Deal(Hand({}, {KING}, {}, {ACE}),
              Hand({ACE}, {ACE}, {}, {}),
              Hand({KING}, {}, {KING}, {}),
              Hand({}, {}, {ACE}, {KING}))
\* W:.T..K N:Q.A.. E:JT... S:.QJ..
DealD == Deal(Hand({}, {TEN}, {}, {KING}),
              Hand({QUEEN}, {ACE}, {}, {}),
              Hand({JACK, TEN}, {}, {}, {}),
              Hand({}, {QUEEN, JACK}, {}, {}))
\* W:.A..Q N:.K.T. E:..K.J S:Q..Q.
DealE == Deal(Hand({}, {ACE}, {}, {QUEEN}),
              Hand({}, {KING}, {TEN}, {}),
              Hand({}, {}, {KING}, {JACK}),
              Hand({QUEEN}, {}, {QUEEN}, {}))
\* W:3... N:A... E:K... S:2... (test_new_mid_trick_validation)
DealH == Deal(Hand({THREE}, {}, {}, {}), Hand({ACE}, {}, {}, {}),
              Hand({KING}, {}, {}, {}), Hand({TWO}, {}, {}, {}))
\* W:KQJ83.A72.Q972.74 N:.6.. E:... S:...
DealI == Deal(Hand({KING, QUEEN, JACK, EIGHT, THREE}, {ACE, SEVEN, TWO},
                   {QUEEN, NINE, SEVEN, TWO}, {SEVEN, FOUR}),
              Hand({}, {SIX}, {}, {}), Hand({}, {}, {}, {}), Hand({}, {}, {}, {}))
\* N:AK... Q... J... T... (West holds fewer cards than North)
DealK == Deal(Hand({TEN}, {}, {}, {}), Hand({ACE, KING}, {}, {}, {}),
              Hand({QUEEN}, {}, {}, {}), Hand({JACK}, {}, {}, {}))
\* W:A93... N:K84... E:QT5... S:J62... (three tricks)
DealL == Deal(Hand({ACE, NINE, THREE}, {}, {}, {}),
              Hand({KING, EIGHT, FOUR}, {}, {}, {}),
              Hand({QUEEN, TEN, FIVE}, {}, {}, {}),
              Hand({JACK, SIX, TWO}, {}, {}, {}))
\* W:QJ6... N:T73... E:984... S:AK5... (three tricks, touching cards)
DealM == Deal(Hand({QUEEN, JACK, SIX}, {}, {}, {}),
              Hand({TEN, SEVEN, THREE}, {}, {}, {}),
              Hand({NINE, EIGHT, FOUR}, {}, {}, {}),
              Hand({ACE, KING, FIVE}, {}, {}, {}))
\* W:A3..2. N:.K5..2 E:.9.54. S:K4...3
DealF == Deal(Hand({ACE, THREE}, {}, {TWO}, {}),
              Hand({}, {KING, FIVE}, {}, {TWO}),
              Hand({}, {NINE}, {FIVE, FOUR}, {}),
              Hand({KING, FOUR}, {}, {}, {THREE}))
\* W:A.2.Q. N:2.A.4. E:5.6.7. S:8.9..T
DealN == Deal(Hand({ACE}, {TWO}, {QUEEN}, {}),
              Hand({TWO}, {ACE}, {FOUR}, {}),
              Hand({FIVE}, {SIX}, {SEVEN}, {}),
              Hand({EIGHT}, {NINE}, {}, {TEN}))
\* W:2.AQ.. N:AK.3.. E:..AKQ. S:5.2..A
DealG == Deal(Hand({TWO}, {ACE, QUEEN}, {}, {}),
              Hand({ACE, KING}, {THREE}, {}, {}),
              Hand({}, {}, {ACE, KING, QUEEN}, {}),
              Hand({FIVE}, {TWO}, {}, {ACE}))
\* The test cases the driver draws from
Cases == <<
    Case(DealA, HEART, NORTH),
    Case(DealA, SPADE, NORTH),
    Case(DealA, NOTRUMP, WEST),
    Case(DealB, NOTRUMP, NORTH),
    Case(DealB, NOTRUMP, WEST),
    Case(DealC, HEART, SOUTH),
    Case(DealC, HEART, WEST),
    Case(DealD, SPADE, EAST),
    Case(DealH, NOTRUMP, WEST),
    Case(DealI, DIAMOND, WEST),
    Case(DealK, NOTRUMP, EAST),
    Case(DealL, NOTRUMP, WEST),
    Case(DealM, NOTRUMP, WEST),
    Case(DealF, HEART, WEST),
    Case(DealE, NOTRUMP, SOUTH) >>
\* the driver constructs solvers from the first NumCases test cases
NumCases == 14
\* and plays cards to the first trick of the first NumMidCases of these
MidCases == <<Case(DealA, HEART, NORTH), Case(DealA, SPADE, NORTH),
              Case(DealN, NOTRUMP, WEST), Case(DealA, NOTRUMP, WEST)>>
NumMidCases == 3
\* at most MaxPlays cards are added to a partial trick
MaxPlays == 4
\* at most MaxCacheUses solves are made on the same caches
MaxCacheUses == 2

\* PartialTrick::new followed by k calls of PartialTrick::add, each adding a
\* card the next seat may play (play.rs) and taking it out of that hand:
\* the pairs <<hands left, partial trick>> of every k <= more
RECURSIVE PartialTricks(_, _, _, _)
PartialTricks(hands, seat, partial, more) ==
    {<<hands, partial>>} \cup
    IF more = 0 THEN {}
    ELSE UNION { PartialTricks([hands EXCEPT ![seat] = @ \ {c}], next_seat(seat),
                               Append(partial, [card |-> c, seat |-> seat]), more - 1)
                 : c \in get_playable_cards(hands, seat,
                             IF partial = <<>> THEN NoSuit ELSE suit_of(partial[1].card)) }

\* ------------------------------------------------------------------------
\* Strings.  A &str or String is the sequence of its characters, each a
\* string of length one.
\* ------------------------------------------------------------------------
\* The characters with the ASCII codes 32 .. 126, in the order of the codes.
\* The grave accent (code 96) cannot be written in a string; a character that
\* no text of the model holds keeps its place.
Ascii ==
    <<" ", "!", "\"", "#", "$", "%", "&", "'", "(", ")", "*", "+", ",", "-",
      ".", "/", "0", "1", "2", "3", "4", "5", "6", "7", "8", "9", ":", ";",
      "<", "=", ">", "?", "@", "A", "B", "C", "D", "E", "F", "G", "H", "I",
      "J", "K", "L", "M", "N", "O", "P", "Q", "R", "S", "T", "U", "V", "W",
      "X", "Y", "Z", "[", "\\", "]", "^", "_", "\f", "a", "b", "c", "d", "e",
      "f", "g", "h", "i", "j", "k", "l", "m", "n", "o", "p", "q", "r", "s",
      "t", "u", "v", "w", "x", "y", "z", "{", "|", "}", "~">>
\* the position of c in seq, 0 when c does not occur
IndexIn(c, seq) ==
    IF \E i \in 1 .. Len(seq) : seq[i] = c THEN CHOOSE i \in 1 .. Len(seq) : seq[i] = c
    ELSE 0
\* the code of a character, and the character of a code (u8 as char)
Ord(c) ==
    IF c = "\t" THEN 9 ELSE IF c = "\n" THEN 10 ELSE IF c = "\r" THEN 13
    ELSE 31 + IndexIn(c, Ascii)
Chr(n) == Ascii[n - 31]
\* char::to_ascii_uppercase
to_ascii_uppercase(c) ==
    IF Ord(c) >= Ord("a") /\ Ord(c) <= Ord("z") THEN Chr(Ord(c) - (Ord("a") - Ord("A")))
    ELSE c
\* char::is_whitespace on the characters of the model
Whitespace == {" ", "\t", "\n", "\r"}
\* the k-th smallest element of a set of numbers
Nth(S, k) == CHOOSE i \in S : Cardinality({j \in S : j <= i}) = k
\* str::trim
trim(s) ==
    LET ix == {i \in 1 .. Len(s) : s[i] \notin Whitespace}
    IN  IF ix = {} THEN <<>> ELSE SubSeq(s, SetMin(ix), SetMax(ix))
\* str::starts_with
starts_with(s, prefix) == Len(s) >= Len(prefix) /\ SubSeq(s, 1, Len(prefix)) = prefix
\* Option<usize> None of find and rfind
NoIndex == 0 - 1
\* str::find and str::rfind of a character of the set chars: the byte offset
\* of its first or its last occurrence
find(s, chars) ==
    LET ix == {i \in 1 .. Len(s) : s[i] \in chars}
    IN  IF ix = {} THEN NoIndex ELSE SetMin(ix) - 1
rfind(s, chars) ==
    LET ix == {i \in 1 .. Len(s) : s[i] \in chars}
    IN  IF ix = {} THEN NoIndex ELSE SetMax(ix) - 1
\* str::split_whitespace, collected: the maximal runs of other characters
split_whitespace(s) ==
    LET starts == {i \in 1 .. Len(s) :
                      s[i] \notin Whitespace /\ (i = 1 \/ s[i - 1] \in Whitespace)}
        end(i) == SetMin({j \in i .. Len(s) : j = Len(s) \/ s[j + 1] \in Whitespace})
    IN  [k \in 1 .. Cardinality(starts) |-> SubSeq(s, Nth(starts, k), end(Nth(starts, k)))]
\* str::split(sep), collected: the pieces between the separators
split(s, sep) ==
    LET seps == {i \in 1 .. Len(s) : s[i] = sep}
        n == Cardinality(seps)
        b(k) == IF k = 0 THEN 0 ELSE IF k = n + 1 THEN Len(s) + 1 ELSE Nth(seps, k)
    IN  [k \in 1 .. (n + 1) |-> SubSeq(s, b(k - 1) + 1, b(k) - 1)]
\* str::lines, collected: the pieces that a line feed ends, each without the
\* carriage return before the line feed, and the rest of the text if it is
\* not empty
lines(content) ==
    LET pieces == split(content, "\n")
        n == Len(pieces)
        strip(l) == IF l # <<>> /\ l[Len(l)] = "\r" THEN SubSeq(l, 1, Len(l) - 1) ELSE l
    IN  [k \in 1 .. (IF pieces[n] = <<>> THEN n - 1 ELSE n) |->
            IF k < n THEN strip(pieces[k]) ELSE pieces[k]]
\* the order of &str: by the first character that differs, else by length
str_lt(a, b) ==
    LET d == {i \in 1 .. Min(Len(a), Len(b)) : a[i] # b[i]}
    IN  IF d = {} THEN Len(a) < Len(b) ELSE Ord(a[SetMin(d)]) < Ord(b[SetMin(d)])
\* the concatenation of the strings of a sequence
RECURSIVE concat(_)
concat(ss) == IF ss = <<>> THEN <<>> ELSE ss[1] \o concat(Tail(ss))

\* ------------------------------------------------------------------------
\* types.rs, hands.rs: parsing a deal
\* ------------------------------------------------------------------------
\* Option<Rank> and Option<Seat>: None
NoRank == NUM_RANKS
NoSeat == NUM_SEATS
char_to_rank(c) ==
    LET u == to_ascii_uppercase(c)
    IN  CASE u = "2" -> TWO [] u = "3" -> THREE [] u = "4" -> FOUR [] u = "5" -> FIVE
          [] u = "6" -> SIX [] u = "7" -> SEVEN [] u = "8" -> EIGHT [] u = "9" -> NINE
          [] u \in {"T", "1"} -> TEN [] u = "J" -> JACK [] u = "Q" -> QUEEN
          [] u = "K" -> KING [] u = "A" -> ACE [] OTHER -> NoRank
char_to_seat(c) ==
    LET u == to_ascii_uppercase(c)
    IN  CASE u = "W" -> WEST [] u = "N" -> NORTH [] u = "E" -> EAST [] u = "S" -> SOUTH
          [] OTHER -> NoSeat
\* parse_hand: some = FALSE is None
parse_hand(s) ==
    LET suits == split(s, ".")
        named == {<<k, i>> \in (1 .. Len(suits)) \X (1 .. Len(s)) :
                     i <= Len(suits[k]) /\ suits[k][i] # "-"}
    IN  IF Len(suits) # 4 \/ \E p \in named : char_to_rank(suits[p[1]][p[2]]) = NoRank
        THEN [some |-> FALSE, cards |-> {}]
        ELSE [some |-> TRUE,
              cards |-> {card_of(p[1] - 1, char_to_rank(suits[p[1]][p[2]])) : p \in named}]
\* Mutant of SeatOfHand: the first hand string always goes to seat 0
SeatOfHand_fixed(start_seat, i) == i
\* the seat of the i-th hand string in from_pbn
SeatOfHand(start_seat, i) == (start_seat + i) % NUM_SEATS
\* Hands::from_pbn: some = FALSE is None
from_pbn(s) ==
    LET has_prefix == Len(s) >= 2 /\ s[2] = ":"
        start_seat == IF has_prefix THEN char_to_seat(s[1]) ELSE NORTH
        rest == IF has_prefix THEN SubSeq(s, 3, Len(s)) ELSE s
        hand_strs == split_whitespace(rest)
        parsed == [i \in 1 .. Len(hand_strs) |-> parse_hand(hand_strs[i])]
    IN  IF start_seat = NoSeat \/ Len(hand_strs) # 4 \/ \E i \in 1 .. 4 : ~parsed[i].some
        THEN [some |-> FALSE, hands |-> EmptyHands]
        ELSE [some |-> TRUE,
              hands |-> [seat \in Seats |->
                           parsed[1 + CHOOSE i \in 0 .. 3 :
                                         SeatOfHand(start_seat, i) = seat].cards]]

\* ------------------------------------------------------------------------
\* bin/bridge-solver/main.rs
\* ------------------------------------------------------------------------
Declarers == <<NORTH, SOUTH, EAST, WEST>>
Denominations == <<NOTRUMP, SPADE, HEART, DIAMOND, CLUB>>
DeclIdxs == 0 .. (Len(Declarers) - 1)
DenomIdxs == 0 .. (Len(Denominations) - 1)
\* the binary never calls set_no_tt, set_no_pruning or set_no_rank_skip
NoFlags == [no_tt |-> FALSE, no_pruning |-> FALSE, no_rank_skip |-> FALSE]
\* DdResults; some = FALSE before solve_deal has returned, panic when it did
\* not return
NoDdResults ==
    [some |-> FALSE, panic |-> FALSE, overflow |-> FALSE,
     tricks |-> [decl \in DeclIdxs |-> [denom \in DenomIdxs |-> 0]]]
\* The body of the loop over the declarers in solve_deal.  acc holds the two
\* caches of the trump, the tricks of the declarers solved so far, panic (a
\* search has panicked) and overflow: the u8 subtraction has overflowed, which
\* panics in a build with overflow checks and wraps in a build without.
SolveDeclarer_rho(hands, trump, decl_idx, acc) ==
    IF acc.panic THEN acc
    ELSE Let(solve_with_caches_and_partial(
                 SolverNew(hands, trump, (Declarers[decl_idx + 1] + 3) % 4),
                 acc.cutoff_cache, acc.pattern_cache, <<>>, NoFlags),
             LAMBDA r :
                 [cutoff_cache |-> r.cutoff_cache, pattern_cache |-> r.pattern_cache,
                  panic |-> r.panic,
                  overflow |-> \/ acc.overflow
                               \/ /\ Declarers[decl_idx + 1] \notin {NORTH, SOUTH}
                                  /\ r.lower > num_tricks(hands),
                  tricks |-> [acc.tricks EXCEPT ![decl_idx] =
                                IF Declarers[decl_idx + 1] \in {NORTH, SOUTH} THEN r.lower
                                ELSE (num_tricks(hands) - r.lower) % 256]])
\* Mutant above: the right-hand opponent of the declarer leads
SolveDeclarer(hands, trump, decl_idx, acc) ==
    IF acc.panic THEN acc
    ELSE Let(solve_with_caches_and_partial(
                 SolverNew(hands, trump, (Declarers[decl_idx + 1] + 1) % 4),
                 acc.cutoff_cache, acc.pattern_cache, <<>>, NoFlags),
             LAMBDA r :
                 [cutoff_cache |-> r.cutoff_cache, pattern_cache |-> r.pattern_cache,
                  panic |-> r.panic,
                  overflow |-> \/ acc.overflow
                               \/ /\ Declarers[decl_idx + 1] \notin {NORTH, SOUTH}
                                  /\ r.lower > num_tricks(hands),
                  tricks |-> [acc.tricks EXCEPT ![decl_idx] =
                                IF Declarers[decl_idx + 1] \in {NORTH, SOUTH} THEN r.lower
                                ELSE (num_tricks(hands) - r.lower) % 256]])
\* the body of the loop over the denominations: fresh caches, then the four
\* declarers in turn
SolveTrump(hands, trump) ==
    SolveDeclarer(hands, trump, 3,
      SolveDeclarer(hands, trump, 2,
        SolveDeclarer(hands, trump, 1,
          SolveDeclarer(hands, trump, 0,
            [cutoff_cache |-> FreshCutoffCache, pattern_cache |-> FreshPatternCache,
             panic |-> FALSE, overflow |-> FALSE,
             tricks |-> [decl \in DeclIdxs |-> 0]]))))
solve_deal(hands) ==
    Let([denom \in DenomIdxs |-> SolveTrump(hands, Denominations[denom + 1])],
        LAMBDA col :
            [some |-> TRUE,
             panic |-> \E denom \in DenomIdxs : col[denom].panic,
             overflow |-> \E denom \in DenomIdxs : col[denom].overflow,
             tricks |-> [decl \in DeclIdxs |-> [denom \in DenomIdxs |->
                            col[denom].tricks[decl]]]])
\* Mutant of DdtChar: ten tricks and more are written from the letter b on
DdtChar_b(tricks) ==
    IF tricks <= 9 THEN Chr(Ord("0") + tricks) ELSE Chr((Ord("b") + tricks - 10) % 256)
\* the character pushed for one entry of the table (u8 arithmetic, as it
\* wraps in a build without overflow checks)
DdtChar(tricks) ==
    IF tricks <= 9 THEN Chr(Ord("0") + tricks) ELSE Chr((Ord("a") + tricks - 10) % 256)
\* DdResults::encode_ddt: for decl in 0..4, for denom in 0..5, push
encode_ddt(results) ==
    concat([d \in 1 .. Len(Declarers) |->
               [n \in 1 .. Len(Denominations) |-> DdtChar(results.tricks[d - 1][n - 1])]])
\* the decimal digits of a number, and format!("{:2}") of it
RECURSIVE Decimal(_)
Decimal(n) ==
    IF n < 10 THEN <<Chr(Ord("0") + n)>>
    ELSE Decimal(n \div 10) \o <<Chr(Ord("0") + (n % 10))>>
Width2(n) == IF n < 10 THEN <<" ">> \o Decimal(n) ELSE Decimal(n)
decl_names == <<<<"N">>, <<"S">>, <<"E">>, <<"W">>>>
denom_names == <<<<"N", "T">>, <<" ", "S">>, <<" ", "H">>, <<" ", "D">>, <<" ", "C">>>>
generate_dd_tags(results) ==
    <<"[", "D", "o", "u", "b", "l", "e", "D", "u", "m", "m", "y", "T", "r", "i", "c", "k", "s", " ", "\"">> \o encode_ddt(results) \o <<"\"", "]", "\n">>
    \o <<"[", "O", "p", "t", "i", "m", "u", "m", "R", "e", "s", "u", "l", "t", "T", "a", "b", "l", "e", " ", "\"", "D", "e", "c", "l", "a", "r", "e", "r", ";", "D", "e", "n", "o", "m", "i", "n", "a", "t", "i", "o", "n", "\\", "2", "R", ";", "R", "e", "s", "u", "l", "t", "\\", "2", "R", "\"", "]", "\n">>
    \o concat([d \in 1 .. Len(decl_names) |->
          concat([n \in 1 .. Len(denom_names) |->
              decl_names[d] \o <<" ">> \o denom_names[n] \o <<" ">>
              \o Width2(results.tricks[d - 1][n - 1]) \o <<"\n">>])])

\* ------------------------------------------------------------------------
\* bin/bridge-solver/main.rs: processing a PBN file
\* ------------------------------------------------------------------------
\* Option<&str> of extract_deal_tag and extract_tag_name
NoStr == [some |-> FALSE, str |-> <<>>]
SomeStr(s) == [some |-> TRUE, str |-> s]
\* extract_deal_tag(line)
extract_deal_tag(line) ==
    LET trimmed == trim(line)
        start == find(trimmed, {"\""}) + 1
        end == rfind(trimmed, {"\""})
    IN  IF ~starts_with(trimmed, <<"[", "D", "e", "a", "l", " ">>) THEN NoStr
        ELSE IF find(trimmed, {"\""}) = NoIndex THEN NoStr
        ELSE IF end = NoIndex THEN NoStr
        ELSE IF end <= start THEN NoStr
        ELSE SomeStr(SubSeq(trimmed, start + 1, end))
\* extract_tag_name(line)
extract_tag_name(line) ==
    IF ~starts_with(line, <<"[">>) THEN NoStr
    ELSE LET rest == Tail(line)
             end == find(rest, {" ", "]"})
         IN  IF end = NoIndex THEN NoStr ELSE SomeStr(SubSeq(rest, 1, end))
\* str::parse::<u8>().is_ok(): decimal digits after an optional plus sign,
\* of a value that fits u8
RECURSIVE DecimalValue(_)
DecimalValue(digits) ==
    IF digits = <<>> THEN 0
    ELSE 10 * DecimalValue(SubSeq(digits, 1, Len(digits) - 1))
         + (Ord(digits[Len(digits)]) - Ord("0"))
parse_u8_is_ok(s) ==
    LET digits == IF s # <<>> /\ s[1] = "+" THEN Tail(s) ELSE s
    IN  /\ digits # <<>>
        /\ \A i \in 1 .. Len(digits) :
              Ord(digits[i]) >= Ord("0") /\ Ord(digits[i]) <= Ord("9")
        /\ DecimalValue(digits) <= 255
\* is_optimum_result_data_line(line)
is_optimum_result_data_line(line) ==
    LET trimmed == trim(line)
        parts == split_whitespace(trimmed)
    IN  IF trimmed = <<>> THEN FALSE
        ELSE IF trimmed[1] \notin {"N", "S", "E", "W"} THEN FALSE
        ELSE IF Len(parts) # 3 THEN FALSE
        ELSE IF parts[1] \notin {<<"N">>, <<"S">>, <<"E">>, <<"W">>} THEN FALSE
        ELSE IF parts[2] \notin {<<"N", "T">>, <<"S">>, <<"H">>, <<"D">>, <<"C">>} THEN FALSE
        ELSE parse_u8_is_ok(parts[3])
\* the tags generate_dd_tags writes or may come to write
dd_tag_names ==
    {<<"D", "o", "u", "b", "l", "e", "D", "u", "m", "m", "y", "T", "r", "i", "c", "k", "s">>, <<"O", "p", "t", "i", "m", "u", "m", "S", "c", "o", "r", "e">>, <<"P", "a", "r", "C", "o", "n", "t", "r", "a", "c", "t">>, <<"O", "p", "t", "i", "m", "u", "m", "R", "e", "s", "u", "l", "t", "T", "a", "b", "l", "e">>}
\* Option<usize> None of insertion_point
NoPoint == 0 - 1
\* the state of the loop that reconstructs a block
ReconstructStart ==
    [output_lines |-> <<>>, found_dd_tag |-> FALSE, skipping_optimum_data |-> FALSE,
     insertion_point |-> NoPoint]
\* the insertion point after a line was pushed, no dd tag found so far
TrackPoint(r, trimmed) ==
    IF starts_with(trimmed, <<"[", "R", "e", "s", "u", "l", "t", " ">>) THEN Len(r.output_lines)
    ELSE IF starts_with(trimmed, <<"[">>) /\ extract_tag_name(trimmed).some
    THEN LET tag_name == extract_tag_name(trimmed).str
         IN  IF str_lt(<<"D", "o", "u", "b", "l", "e", "D", "u", "m", "m", "y", "T", "r", "i", "c", "k", "s">>, tag_name) /\ r.insertion_point = NoPoint
             THEN Len(r.output_lines) - 1
             ELSE IF str_lt(tag_name, <<"D", "o", "u", "b", "l", "e", "D", "u", "m", "m", "y", "T", "r", "i", "c", "k", "s">>) THEN Len(r.output_lines)
             ELSE r.insertion_point
    ELSE r.insertion_point
\* one turn of the loop over the lines of the block
ReconstructLine(r, line) ==
    LET trimmed == trim(line)
        name == extract_tag_name(trimmed)
    IN  IF name.some /\ name.str \in dd_tag_names
        THEN [r EXCEPT !.insertion_point = IF r.found_dd_tag THEN @ ELSE Len(r.output_lines),
                       !.found_dd_tag = TRUE,
                       !.skipping_optimum_data =
                           IF name.str = <<"O", "p", "t", "i", "m", "u", "m", "R", "e", "s", "u", "l", "t", "T", "a", "b", "l", "e">> THEN TRUE ELSE @]
        ELSE IF r.skipping_optimum_data /\ is_optimum_result_data_line(line) THEN r
        ELSE Let([r EXCEPT !.skipping_optimum_data = FALSE,
                           !.output_lines = Append(@, line)],
                 LAMBDA pushed :
                     IF pushed.found_dd_tag THEN pushed
                     ELSE [pushed EXCEPT !.insertion_point = TrackPoint(pushed, trimmed)])
RECURSIVE Reconstruct(_, _)
Reconstruct(r, block) ==
    IF block = <<>> THEN r ELSE Reconstruct(ReconstructLine(r, Head(block)), Tail(block))
\* each line followed by a line feed
PushLines(block) == concat([k \in 1 .. Len(block) |-> block[k] \o <<"\n">>])
\* the output built from the lines kept and the new tags
BuildOutput(output_lines, insertion_point, dd_tags) ==
    LET insert_at == IF insertion_point = NoPoint THEN Len(output_lines) ELSE insertion_point
    IN  concat([k \in 1 .. Len(output_lines) |->
                   (IF k - 1 = insert_at THEN dd_tags ELSE <<>>)
                   \o output_lines[k] \o <<"\n">>])
        \o (IF insert_at >= Len(output_lines) THEN dd_tags ELSE <<>>)
\* the first Deal tag of the block: deal_str
RECURSIVE FirstDealTag(_)
FirstDealTag(block) ==
    IF block = <<>> THEN NoStr
    ELSE IF extract_deal_tag(Head(block)).some THEN extract_deal_tag(Head(block))
    ELSE FirstDealTag(Tail(block))
\* process_deal_block(lines, &mut deal_count, verbose) in a build with or
\* without overflow checks.  The value of extract_vulnerability_tag goes to
\* generate_dd_tags only, which does not read it.  path names the return taken.
process_deal_block(block, deal_count, overflow_checks) ==
    LET deal_str == FirstDealTag(block)
    IN  IF ~deal_str.some
        THEN [out |-> PushLines(block), deal_count |-> deal_count, panic |-> FALSE,
              path |-> "no_deal"]
        ELSE Let(from_pbn(deal_str.str), LAMBDA hands :
            IF ~hands.some
            THEN [out |-> PushLines(block), deal_count |-> deal_count, panic |-> FALSE,
                  path |-> "rejected"]
            ELSE Let(solve_deal(hands.hands), LAMBDA dd_results :
                IF dd_results.panic \/ (overflow_checks /\ dd_results.overflow)
                THEN [out |-> <<>>, deal_count |-> deal_count + 1, panic |-> TRUE,
                      path |-> "solved"]
                ELSE Let(Reconstruct(ReconstructStart, block), LAMBDA r :
                    [out |-> BuildOutput(r.output_lines, r.insertion_point,
                                         generate_dd_tags(dd_results)),
                     deal_count |-> deal_count + 1, panic |-> FALSE, path |-> "solved"])))
\* process_pbn: the lines that are blank from line i on are pushed
RECURSIVE SkipBlank(_, _)
SkipBlank(ls, i) ==
    IF i < Len(ls) /\ trim(ls[i + 1]) = <<>> THEN SkipBlank(ls, i + 1) ELSE i
\* in_brace_comment after the loop over the characters of a line: the last
\* brace of the line decides, and a line without braces changes nothing
BraceAfter(in_brace_comment, line) ==
    IF rfind(line, {"{", "}"}) = NoIndex THEN in_brace_comment
    ELSE line[rfind(line, {"{", "}"}) + 1] = "{"
\* the loop that collects a block from line i on: block_end
RECURSIVE BlockEnd(_, _, _)
BlockEnd(ls, i, in_brace_comment) ==
    IF i >= Len(ls) THEN i
    ELSE LET brace == BraceAfter(in_brace_comment, ls[i + 1])
         IN  IF i + 1 < Len(ls) /\ trim(ls[i + 2]) = <<>> /\ ~brace THEN i + 1
             ELSE BlockEnd(ls, i + 1, brace)

VARIABLES NO_TT, NO_PRUNING, NO_RANK_SKIP, pc, solver, partial_trick,
          cutoff_cache, pattern_cache, cache_uses, op, ns_tricks, panicked,
          mtdf, deal, pbn, entry, tables, follow, par, computed
vars == <<NO_TT, NO_PRUNING, NO_RANK_SKIP, pc, solver, partial_trick,
          cutoff_cache, pattern_cache, cache_uses, op, ns_tricks, panicked,
          mtdf, deal, pbn, entry, tables, follow, par, computed>>
\* mtdf: the locals of mtdf_search_with_caches_and_partial while its loop is
\* followed step by step; deal: the last call of the deal functions of the
\* bridge-solver binary; pbn: the locals of process_pbn; entry: a shape
\* entry of the pattern cache under Pattern::update; tables: a pattern cache
\* and a cutoff cache under their own operations; follow: the last call of
\* order_follows; par: two threads that each run a solve, and the counters
\* of the process (the switches NO_TT, NO_PRUNING and NO_RANK_SKIP are the
\* variables above); computed: the last call of compute_pattern_hands
others == <<mtdf, deal, pbn, entry, tables, follow, par, computed>>
switches == <<NO_TT, NO_PRUNING, NO_RANK_SKIP>>
caches == <<cutoff_cache, pattern_cache, cache_uses>>
\* the switches as the search reads them
Flags == [no_tt |-> NO_TT, no_pruning |-> NO_PRUNING, no_rank_skip |-> NO_RANK_SKIP]
\* no value returned yet
NoResult == -1
\* mtdf_search_with_caches_and_partial is not running
MtdfIdle == [pc |-> "idle", m |-> MtdfStart(NoSolver, FreshCutoffCache, FreshPatternCache)]
\* no deal function was called yet
DealIdle ==
    [op |-> "idle", prefix |-> <<>>, hand_strs |-> <<>>,
     parsed |-> [some |-> FALSE, hands |-> EmptyHands],
     results |-> NoDdResults, ddt |-> <<>>]
PbnIdle ==
    [pc |-> "idle", overflow_checks |-> FALSE, file |-> <<>>, lines |-> <<>>, i |-> 0,
     result |-> <<>>, deal_count |-> 0, blocks |-> <<>>]
\* the pattern hands stored: West holds the spade ace or not, North the
\* heart ace or not
PatHands ==
    {[seat \in Seats |-> IF seat = WEST THEN w ELSE IF seat = NORTH THEN n ELSE {}] :
        w \in SUBSET {card_of(SPADE, ACE)}, n \in SUBSET {card_of(HEART, ACE)}}
\* the values left to each position once a pattern with the hands and the
\* bounds is stored: the bounds hold for the positions in which every seat
\* holds the cards of the pattern
Narrowed(range, hands, bounds) ==
    [position \in PatHands |->
        IF \A seat \in Seats : hands[seat] \subseteq position[seat]
        THEN BoundsIntersect(range[position], bounds)
        ELSE range[position]]
\* The pattern of a shape entry after ShapeEntry::reset.  id (no field of
\* Pattern) tells the nodes of a tree apart: 0 is the root, k the pattern
\* that the k-th update call inserted.
RootPattern == [id |-> 0] @@ DefaultPattern
\* a shape entry just reset: pattern is its tree, before the tree at the
\* start of the last update call, updates the number of update calls made,
\* sound (a history field) whether the bounds stored so far can all hold
\* and, while they can, range (a history field) the values they leave to
\* each position
EntryIdle ==
    [op |-> "reset", pattern |-> RootPattern, before |-> RootPattern, updates |-> 0,
     sound |-> TRUE, range |-> [position \in PatHands |-> DefaultPattern.bounds]]
\* the cutoff cache followed is CutoffCache::new(CcBits)
CcBits == 1
\* the hashes stored, none of them zero: the top byte is one of TopBytes, the
\* lowest byte is 1
TopBytes == {16, 64, 192, 208}
CcHashes == {[i \in Limbs |-> IF i = 8 THEN b ELSE IF i = 1 THEN 1 ELSE 0] : b \in TopBytes}
\* the seats and the cards of the stores
CcSeats == {WEST, NORTH}
CcCards == {card_of(SPADE, ACE), card_of(CLUB, TWO)}
\* the pattern cache followed is PatternCache::new(PcBits)
PcBits == 1
\* the caches under their own operations: pcache is the pattern cache, pbefore
\* the pattern cache at the start of the last call, key the (shape, seat) of
\* that call, ops the number of calls made
\* cc is the cutoff cache, cbefore the cutoff cache at the start of the last
\* store, call that store, last (a history field) the card of the latest
\* store of every (hash, seat), stores the number of stores made
TablesIdle ==
    [op |-> "new", ops |-> 0, key |-> [shape |-> Zero64, seat |-> WEST],
     pcache |-> NewPatternCache(PcBits), pbefore |-> NewPatternCache(PcBits),
     cc |-> NewCutoffCache(CcBits), cbefore |-> NewCutoffCache(CcBits),
     call |-> [hash |-> Zero64, seat |-> WEST, card |-> NoCard],
     last |-> [x \in CcHashes \X Seats |-> NoCard], stores |-> 0]

\* the threads of par
Threads == {1, 2}
\* a thread that has not called solve yet; alone is a history field: the
\* record of the same solve when it runs with no other thread
ThreadIdle ==
    [pc |-> "idle", solver |-> NoSolver,
     m |-> MtdfStart(NoSolver, FreshCutoffCache, FreshPatternCache),
     next |-> MtdfStart(NoSolver, FreshCutoffCache, FreshPatternCache),
     nodes_left |-> 0, calls_left |-> 0, result |-> NoResult,
     alone |-> MtdfStart(NoSolver, FreshCutoffCache, FreshPatternCache)]
\* the process before any thread runs
ParIdle ==
    [NODE_COUNT |-> 0, XRAY_COUNT |-> 0, XRAY_LIMIT |-> 0, thread |-> [t \in Threads |-> ThreadIdle]]
\* compute_pattern_hands was not called yet
ComputedIdle ==
    [op |-> "idle", hands |-> EmptyHands, relative_hands |-> EmptyHands, all_cards |-> {},
     rank_winners |-> {}, pattern_hands |-> EmptyHands, extended_rank_winners |-> {}]
\* order_follows was not called yet
FollowIdle ==
    [op |-> "idle", hands |-> EmptyHands, seat |-> WEST, trump |-> NOTRUMP, trick |-> <<>>,
     winning_play |-> 0, playable |-> {}, ordered |-> <<>>, panic |-> FALSE]

Init ==
    /\ NO_TT = FALSE
    /\ NO_PRUNING = FALSE
    /\ NO_RANK_SKIP = FALSE
    /\ pc = "args"
    /\ solver = NoSolver
    /\ partial_trick = <<>>
    /\ cutoff_cache = FreshCutoffCache
    /\ pattern_cache = FreshPatternCache
    /\ cache_uses = <<>>
    /\ op = "init"
    /\ ns_tricks = NoResult
    /\ panicked = FALSE
    /\ mtdf = MtdfIdle
    /\ deal = DealIdle
    /\ pbn = PbnIdle
    /\ entry = EntryIdle
    /\ tables = TablesIdle
    /\ follow = FollowIdle
    /\ par = ParIdle
    /\ computed = ComputedIdle

\* set_no_tt(enabled), called while the arguments are read
SetNoTT ==
    /\ pc = "args"
    /\ \E enabled \in BOOLEAN : NO_TT' = enabled
    /\ UNCHANGED <<NO_PRUNING, NO_RANK_SKIP, pc, solver, partial_trick, caches,
                   op, ns_tricks, panicked>>
    /\ UNCHANGED others
\* set_no_pruning(enabled)
SetNoPruning ==
    /\ pc = "args"
    /\ \E enabled \in BOOLEAN : NO_PRUNING' = enabled
    /\ UNCHANGED <<NO_TT, NO_RANK_SKIP, pc, solver, partial_trick, caches,
                   op, ns_tricks, panicked>>
    /\ UNCHANGED others
\* set_no_rank_skip(enabled)
SetNoRankSkip ==
    /\ pc = "args"
    /\ \E enabled \in BOOLEAN : NO_RANK_SKIP' = enabled
    /\ UNCHANGED <<NO_TT, NO_PRUNING, pc, solver, partial_trick, caches,
                   op, ns_tricks, panicked>>
    /\ UNCHANGED others

\* CutoffCache::new(16) and PatternCache::new(16) at the top of the loop
\* over the trumps: no solver and no result are in scope there
NewCaches ==
    /\ pc' = "run"
    /\ cutoff_cache' = FreshCutoffCache
    /\ pattern_cache' = FreshPatternCache
    /\ cache_uses' = <<>>
    /\ solver' = NoSolver
    /\ partial_trick' = <<>>
    /\ op' = "new_caches"
    /\ ns_tricks' = NoResult
    /\ panicked' = FALSE
    /\ UNCHANGED switches
    /\ UNCHANGED others

\* the caches in hand were created fresh or have served this Hands value only
CachesServe(hands) == IF cache_uses = <<>> THEN TRUE ELSE cache_uses[1].hands = hands

\* Solver::new on a test case
NewSolver ==
    /\ pc = "run"
    /\ \E i \in 1 .. NumCases :
          /\ CachesServe(Cases[i].hands)
          /\ solver' = SolverNew(Cases[i].hands, Cases[i].trump, Cases[i].leader)
    /\ partial_trick' = <<>>
    /\ op' = "new"
    /\ ns_tricks' = NoResult
    /\ panicked' = FALSE
    /\ UNCHANGED <<switches, pc, caches>>
    /\ UNCHANGED others

\* PartialTrick::new, PartialTrick::add for each card played from a test
\* case, then Solver::new_mid_trick on the hands that are left
NewMidTrick ==
    /\ pc = "run"
    /\ cache_uses = <<>>
    /\ \E i \in 1 .. NumMidCases :
          \E hp \in PartialTricks(MidCases[i].hands, MidCases[i].leader, <<>>, MaxPlays) :
             /\ solver' = new_mid_trick(hp[1], MidCases[i].trump, hp[2])
             /\ partial_trick' = hp[2]
    /\ op' = "new_mid_trick"
    /\ ns_tricks' = NoResult
    /\ panicked' = FALSE
    /\ UNCHANGED <<switches, pc, caches>>
    /\ UNCHANGED others

\* Solver::solve: caches of its own, the caller's are not touched
Solve ==
    /\ pc = "run"
    /\ solver.some
    /\ cache_uses = <<>>
    /\ \E r \in {solve_with_caches_and_partial(solver, FreshCutoffCache, FreshPatternCache,
                                               <<>>, Flags)} :
          /\ ns_tricks' = IF r.panic THEN NoResult ELSE r.lower
          /\ panicked' = r.panic
    /\ op' = "solve"
    /\ UNCHANGED <<switches, pc, solver, partial_trick, caches>>
    /\ UNCHANGED others

\* Solver::solve_with_caches on the caller's caches
SolveWithCaches ==
    /\ pc = "run"
    /\ solver.some
    /\ partial_trick = <<>>
    /\ Len(cache_uses) < MaxCacheUses
    /\ \E r \in {solve_with_caches_and_partial(solver, cutoff_cache, pattern_cache,
                                               <<>>, Flags)} :
          /\ ns_tricks' = IF r.panic THEN NoResult ELSE r.lower
          /\ panicked' = r.panic
          /\ cutoff_cache' = r.cutoff_cache
          /\ pattern_cache' = r.pattern_cache
    /\ cache_uses' = Append(cache_uses, [hands |-> solver.hands, trump |-> solver.trump,
                                         leader |-> solver.initial_leader])
    /\ op' = "solve_with_caches"
    /\ UNCHANGED <<switches, pc, solver, partial_trick>>
    /\ UNCHANGED others

\* Solver::solve_mid_trick on the caller's caches, with the partial trick
\* the solver was constructed from
SolveMidTrick ==
    /\ pc = "run"
    /\ solver.some
    /\ partial_trick # <<>>
    /\ Len(cache_uses) < MaxCacheUses
    /\ \E r \in {solve_with_caches_and_partial(solver, cutoff_cache, pattern_cache,
                                               partial_trick, Flags)} :
          /\ ns_tricks' = IF r.panic THEN NoResult ELSE r.lower
          /\ panicked' = r.panic
          /\ cutoff_cache' = r.cutoff_cache
          /\ pattern_cache' = r.pattern_cache
    /\ cache_uses' = Append(cache_uses, [hands |-> solver.hands, trump |-> solver.trump,
                                         leader |-> solver.initial_leader])
    /\ op' = "solve_mid_trick"
    /\ UNCHANGED <<switches, pc, solver, partial_trick>>
    /\ UNCHANGED others

Next ==
    \/ SetNoTT
    \/ SetNoPruning
    \/ SetNoRankSkip
    \/ NewCaches
    \/ NewSolver
    \/ NewMidTrick
    \/ Solve
    \/ SolveWithCaches
    \/ SolveMidTrick
Spec == Init /\ [][Next]_vars

\* ------------------------------------------------------------------------
\* The MTD(f) loop of mtdf_search_with_caches_and_partial followed one
\* iteration at a time, on the caller's caches (solve_with_caches and
\* solve_mid_trick; Solver::solve is the call on caches just created)
\* ------------------------------------------------------------------------
\* the calls that prepare a solve; none is made while the loop runs
Setup ==
    /\ mtdf.pc \in {"idle", "returned"}
    /\ (SetNoTT \/ SetNoPruning \/ SetNoRankSkip \/ NewCaches \/ NewSolver \/ NewMidTrick)
\* the lines of mtdf_search_with_caches_and_partial before the loop
MtdfEnter ==
    /\ pc = "run"
    /\ solver.some
    /\ mtdf.pc \in {"idle", "returned"}
    /\ Len(cache_uses) < MaxCacheUses
    /\ mtdf' = [pc |-> "loop", m |-> MtdfStart(solver, cutoff_cache, pattern_cache)]
    /\ ns_tricks' = NoResult
    /\ panicked' = FALSE
    /\ op' = "mtdf"
    /\ UNCHANGED <<switches, pc, solver, partial_trick, caches, deal, pbn, entry, tables, follow, par, computed>>
\* one iteration of the loop; a panic of the search ends the process
MtdfIterate ==
    /\ mtdf.pc = "loop"
    /\ mtdf.m.lower < mtdf.m.upper
    /\ \E m \in {MtdfStep(solver, partial_trick, Flags, mtdf.m)} :
          /\ mtdf' = [pc |-> IF m.panic THEN "panic" ELSE "loop", m |-> m]
          /\ panicked' = m.panic
    /\ UNCHANGED <<switches, pc, solver, partial_trick, caches, op, ns_tricks,
                   deal, pbn, entry, tables, follow, par, computed>>
\* the loop condition fails: lower is returned and the caller's caches
\* hold what the searches stored
MtdfReturn ==
    /\ mtdf.pc = "loop"
    /\ ~(mtdf.m.lower < mtdf.m.upper)
    /\ mtdf' = [mtdf EXCEPT !.pc = "returned"]
    /\ ns_tricks' = mtdf.m.lower
    /\ cutoff_cache' = mtdf.m.cutoff_cache
    /\ pattern_cache' = mtdf.m.pattern_cache
    /\ cache_uses' = Append(cache_uses, [hands |-> solver.hands, trump |-> solver.trump,
                                         leader |-> solver.initial_leader])
    /\ op' = IF partial_trick = <<>> THEN "solve_with_caches" ELSE "solve_mid_trick"
    /\ UNCHANGED <<switches, pc, solver, partial_trick, panicked, deal, pbn, entry, tables, follow, par, computed>>
MtdNext ==
    \/ Setup
    \/ MtdfEnter
    \/ MtdfIterate
    \/ MtdfReturn
\* MtdfIterate is enabled exactly when the loop condition holds (every
\* iteration records its beta, so it is no stuttering step)
MtdfIterateEnabled == mtdf.pc = "loop" /\ mtdf.m.lower < mtdf.m.upper
\* Weak fairness of MtdfIterate, WF_vars(MtdfIterate) with its ENABLED
\* written out as MtdfIterateEnabled
MtdfIterateFair == []<>(~MtdfIterateEnabled) \/ []<><<MtdfIterate>>_vars
\* a loop that was entered goes on until its condition fails or the search
\* panics: the solver is one sequential computation
MtdSpec == Init /\ [][MtdNext]_vars /\ MtdfIterateFair /\ WF_vars(MtdfReturn)

\* ------------------------------------------------------------------------
\* Two threads that each call Solver::solve (caches of its own) on a solver
\* of its own.  What they share are the statics of bridge_solver.rs, read
\* and updated with Ordering::Relaxed: every load, store and fetch_add is a
\* step of its own, and the steps of the two threads interleave freely.
\* The xray limit is set before the threads start and the switches are
\* left as they are.
\* ------------------------------------------------------------------------
\* the deals of the calls of order_follows and compute_pattern_hands
FollowDeals == <<DealF, DealG, DealM>>
\* the test cases the threads solve
ParCases == <<Case(DealA, HEART, NORTH), Case(DealA, SPADE, NORTH), Case(DealD, SPADE, EAST)>>
\* the first NumParCases of them are used
NumParCases == 2
\* the xray limits set_xray_limit is called with
XrayLimits == {0, 2}
\* the number of calls of search_with_cache made by the search whose log is
\* given: the call of search and one call for every card played
SearchCalls(log) == 1 + Cardinality({i \in 1 .. Len(log) : log[i].kind = "play"})
\* Mutant of ParSearch: the search gives up, with the bounds it has, once the
\* xray counter is beyond the limit
ParSearch_limit(s, flags, m, node_count, xray_count, xray_limit) ==
    IF xray_limit > 0 /\ xray_count > xray_limit THEN [m EXCEPT !.upper = m.lower]
    ELSE MtdfStep(s, <<>>, flags, [m EXCEPT !.nodes = node_count])
\* one iteration of the loop of a thread: the search counts its nodes from
\* the value of NODE_COUNT it finds, and what it loads from NODE_COUNT,
\* XRAY_COUNT and XRAY_LIMIT goes to eprintln only
ParSearch(s, flags, m, node_count, xray_count, xray_limit) ==
    MtdfStep(s, <<>>, flags, [m EXCEPT !.nodes = node_count])
\* Solver::solve of the solver when no other thread runs: the record of the
\* finished loop
SolveAlone(s) ==
    solve_with_caches_and_partial(s, FreshCutoffCache, FreshPatternCache, <<>>, Flags)
ParUnchanged ==
    UNCHANGED <<pc, solver, partial_trick, caches, op, ns_tricks, panicked,
                mtdf, deal, pbn, entry, tables, follow, computed>>
\* set_xray_limit(limit) before the threads start
ParSetXrayLimit ==
    /\ \A t \in Threads : par.thread[t].pc = "idle"
    /\ \E limit \in XrayLimits : par' = [par EXCEPT !.XRAY_LIMIT = limit, !.XRAY_COUNT = 0]
    /\ UNCHANGED switches
    /\ ParUnchanged
\* thread t calls Solver::new on a test case and enters
\* solve_with_caches_and_partial: NODE_COUNT.store(0)
ParStoreNodes(t) ==
    /\ par.thread[t].pc = "idle"
    /\ \E i \in 1 .. NumParCases :
          \E s \in {SolverNew(ParCases[i].hands, ParCases[i].trump, ParCases[i].leader)} :
             par' = [par EXCEPT
                       !.NODE_COUNT = 0,
                       !.thread[t] = [@ EXCEPT
                           !.pc = "store_xray",
                           !.solver = s,
                           !.alone = SolveAlone(s)]]
    /\ UNCHANGED switches
    /\ ParUnchanged
\* XRAY_COUNT.store(0), then the lines before the loop
ParStoreXray(t) ==
    /\ par.thread[t].pc = "store_xray"
    /\ par' = [par EXCEPT
                 !.XRAY_COUNT = 0,
                 !.thread[t] = [@ EXCEPT
                     !.pc = "loop",
                     !.m = MtdfStart(par.thread[t].solver, FreshCutoffCache, FreshPatternCache)]]
    /\ UNCHANGED switches
    /\ ParUnchanged
\* thread t starts an iteration of the loop: the search it makes, and the
\* updates of the counters this search has to make
ParSearchStart(t) ==
    /\ par.thread[t].pc = "loop"
    /\ par.thread[t].m.lower < par.thread[t].m.upper
    /\ \E m \in {ParSearch(par.thread[t].solver, Flags, par.thread[t].m,
                            par.NODE_COUNT, par.XRAY_COUNT, par.XRAY_LIMIT)} :
          par' = [par EXCEPT
                    !.thread[t] = [@ EXCEPT
                        !.pc = "search",
                        !.next = m,
                        !.nodes_left = m.nodes - par.NODE_COUNT,
                        !.calls_left = IF par.XRAY_LIMIT > 0 /\ ~m.panic
                                       THEN SearchCalls(m.log) ELSE 0]]
    /\ UNCHANGED switches
    /\ ParUnchanged
\* XRAY_COUNT.fetch_add(1) of a call of search_with_cache.  A thread makes
\* its updates one after the other: the call comes before the node it
\* evaluates, so the calls that are not matched by a node are counted first
\* and then a call and a node in turn.
ParCountCall(t) ==
    /\ par.thread[t].pc = "search"
    /\ par.thread[t].calls_left > 0
    /\ par.thread[t].calls_left >= par.thread[t].nodes_left
    /\ par' = [par EXCEPT
                 !.XRAY_COUNT = @ + 1,
                 !.thread[t] = [@ EXCEPT !.calls_left = @ - 1]]
    /\ UNCHANGED switches
    /\ ParUnchanged
\* NODE_COUNT.fetch_add(1) of a call of evaluate_playable_cards
ParCountNode(t) ==
    /\ par.thread[t].pc = "search"
    /\ par.thread[t].nodes_left > 0
    /\ par.thread[t].calls_left < par.thread[t].nodes_left
    /\ par' = [par EXCEPT
                 !.NODE_COUNT = @ + 1,
                 !.thread[t] = [@ EXCEPT !.nodes_left = @ - 1]]
    /\ UNCHANGED switches
    /\ ParUnchanged
\* the search of thread t returns into the loop
ParSearchEnd(t) ==
    /\ par.thread[t].pc = "search"
    /\ par.thread[t].nodes_left = 0
    /\ par.thread[t].calls_left = 0
    /\ par' = [par EXCEPT
                 !.thread[t] = [@ EXCEPT
                     !.pc = IF par.thread[t].next.panic THEN "panic" ELSE "loop",
                     !.m = par.thread[t].next]]
    /\ UNCHANGED switches
    /\ ParUnchanged
\* the loop of thread t ends and solve returns lower
ParReturn(t) ==
    /\ par.thread[t].pc = "loop"
    /\ ~(par.thread[t].m.lower < par.thread[t].m.upper)
    /\ par' = [par EXCEPT
                 !.thread[t] = [@ EXCEPT
                     !.pc = "returned",
                     !.result = par.thread[t].m.lower]]
    /\ UNCHANGED switches
    /\ ParUnchanged
ParNext ==
    \/ ParSetXrayLimit
    \/ \E t \in Threads :
          \/ ParStoreNodes(t)
          \/ ParStoreXray(t)
          \/ ParSearchStart(t)
          \/ ParCountCall(t)
          \/ ParCountNode(t)
          \/ ParSearchEnd(t)
          \/ ParReturn(t)
ParSpec == Init /\ [][ParNext]_vars

\* ------------------------------------------------------------------------
\* compute_pattern_hands on the relative hands of a deal, all its cards and
\* a set of rank winners among them
\* ------------------------------------------------------------------------
\* the deals are the first NumComputeDeals of FollowDeals
NumComputeDeals == 2
\* the sets of rank winners hold at most MaxRankWinners cards
MaxRankWinners == 2
ComputePatternHands ==
    /\ \E i \in 1 .. NumComputeDeals :
          \E rank_winners \in {w \in SUBSET all_cards(FollowDeals[i]) :
                                  Cardinality(w) <= MaxRankWinners} :
             LET hands == FollowDeals[i]
                 all == all_cards(hands)
                 relative_hands == RelativeCompute(EmptyHands, hands, all, 0)
             IN  \E ph \in {compute_pattern_hands(relative_hands, all, rank_winners)} :
                    computed' = [op |-> "compute_pattern_hands", hands |-> hands,
                                 relative_hands |-> relative_hands, all_cards |-> all,
                                 rank_winners |-> rank_winners,
                                 pattern_hands |-> ph.pattern_hands,
                                 extended_rank_winners |-> ph.extended_rank_winners]
    /\ UNCHANGED <<switches, pc, solver, partial_trick, caches, op, ns_tricks, panicked,
                   mtdf, deal, pbn, entry, tables, follow, par>>
ComputeNext == ComputePatternHands
ComputeSpec == Init /\ [][ComputeNext]_vars

\* ------------------------------------------------------------------------
\* order_follows as order_cards_static calls it at a node that is not a
\* trick start: on the hands left when one to three cards were played to the
\* first trick of a deal
\* ------------------------------------------------------------------------
\* the first NumFollowDeals of them are used
NumFollowDeals == 2
\* the trumps of the contracts
Trumps == Suits \cup {NOTRUMP}
\* the call for the seat next to play after the partial trick pt was played
\* and left the hands
Followed(hands, trump, pt) ==
    LET seat_to_play == next_seat(pt[Len(pt)].seat)
        lead_suit == suit_of(pt[1].card)
        winning_play_idx == PartialWinner(pt, trump, Len(pt))
        playable == get_playable_cards(hands, seat_to_play, lead_suit)
    IN  Let(order_follows(playable, hands, seat_to_play, trump, lead_suit,
                          pt[winning_play_idx + 1].seat, pt[winning_play_idx + 1].card,
                          Len(pt)),
            LAMBDA ordered :
            [op |-> "order_follows", hands |-> hands, seat |-> seat_to_play,
             trump |-> trump, trick |-> pt, winning_play |-> winning_play_idx,
             playable |-> playable, ordered |-> ordered.cards, panic |-> ordered.panic])
OrderFollows ==
    /\ \E i \in 1 .. NumFollowDeals, trump \in Trumps, leader \in Seats :
          \E hp \in PartialTricks(FollowDeals[i], leader, <<>>, NUM_SEATS - 1) :
             /\ hp[2] # <<>>
             /\ follow' = Followed(hp[1], trump, hp[2])
    /\ UNCHANGED <<switches, pc, solver, partial_trick, caches, op, ns_tricks, panicked,
                   mtdf, deal, pbn, entry, tables, par, computed>>
FollowNext == OrderFollows
FollowSpec == Init /\ [][FollowNext]_vars

\* ------------------------------------------------------------------------
\* Pattern::update on the pattern tree of one shape entry
\* ------------------------------------------------------------------------
\* the tricks left at the positions whose patterns are stored
MaxPatTricks == 1
\* update calls followed on one entry
MaxUpdates == 4
\* the bounds stored: 0 <= lower <= upper <= the tricks left
PatBounds ==
    {[lower |-> l, upper |-> u] : l \in 0 .. MaxPatTricks, u \in 0 .. MaxPatTricks} \
        {b \in [lower : 0 .. MaxPatTricks, upper : 0 .. MaxPatTricks] : b.upper < b.lower}
\* ShapeEntry::reset
PatReset ==
    /\ entry.updates > 0
    /\ entry' = EntryIdle
    /\ UNCHANGED <<switches, pc, solver, partial_trick, caches, op, ns_tricks, panicked,
                   mtdf, deal, pbn, tables, follow, par, computed>>
\* entry.pattern.update(Pattern::new(hands, bounds))
PatUpdate ==
    /\ entry.updates < MaxUpdates
    /\ \E hands \in PatHands, bounds \in PatBounds :
          entry' = [op |-> "update",
                    pattern |-> PatternUpdate(entry.pattern,
                                    [id |-> entry.updates + 1] @@ NewPattern(hands, bounds)),
                    before |-> entry.pattern,
                    updates |-> entry.updates + 1,
                    sound |-> entry.sound /\ \A position \in PatHands :
                                 ~BoundsIsEmpty(Narrowed(entry.range, hands, bounds)[position]),
                    range |-> IF entry.sound /\ \A position \in PatHands :
                                     ~BoundsIsEmpty(Narrowed(entry.range, hands, bounds)[position])
                              THEN Narrowed(entry.range, hands, bounds)
                              ELSE EntryIdle.range]
    /\ UNCHANGED <<switches, pc, solver, partial_trick, caches, op, ns_tricks, panicked,
                   mtdf, deal, pbn, tables, follow, par, computed>>
PatNext ==
    \/ PatReset
    \/ PatUpdate
PatSpec == Init /\ [][PatNext]_vars

\* ------------------------------------------------------------------------
\* PatternCache: get_or_create and the update that follows it, on a cache
\* small enough for shapes to meet in a slot
\* ------------------------------------------------------------------------
\* calls followed on one cache
MaxPcOps == 3
\* the (shape, seat) pairs the calls are made for
PcKeys ==
    {[shape |-> ShapeValue(ShapeFromHands(hands)), seat |-> seat] :
        hands \in {DealA, DealB, DealC}, seat \in {WEST, NORTH}}
\* the patterns stored
PcPatterns == {NewPattern(hands, [lower |-> 0, upper |-> 1]) : hands \in PatHands}
\* PatternCache::get_or_create(shape, seat_to_play)
PcGetOrCreate ==
    /\ tables.ops < MaxPcOps
    /\ \E key \in PcKeys :
          tables' = [tables EXCEPT
                        !.op = "get_or_create", !.key = key, !.ops = @ + 1,
                        !.pbefore = tables.pcache,
                        !.pcache = get_or_create(@, key.shape, key.seat)]
    /\ UNCHANGED <<switches, pc, solver, partial_trick, caches, op, ns_tricks, panicked,
                   mtdf, deal, pbn, entry, follow, par, computed>>
\* get_or_create(shape, seat_to_play) and entry.pattern.update(new_pattern),
\* as the trick-start search stores a result
PcUpdate ==
    /\ tables.ops < MaxPcOps
    /\ \E key \in PcKeys, new_pattern \in PcPatterns :
          tables' = [tables EXCEPT
                        !.op = "update", !.key = key, !.ops = @ + 1,
                        !.pbefore = tables.pcache,
                        !.pcache = PatternCacheUpdate(@, key.shape, key.seat, new_pattern)]
    /\ UNCHANGED <<switches, pc, solver, partial_trick, caches, op, ns_tricks, panicked,
                   mtdf, deal, pbn, entry, follow, par, computed>>
PcNext ==
    \/ PcGetOrCreate
    \/ PcUpdate
PcSpec == Init /\ [][PcNext]_vars

\* ------------------------------------------------------------------------
\* CutoffCache: stores on a cache small enough to be resized
\* ------------------------------------------------------------------------
\* stores followed on one cache
MaxStores == 4
\* CutoffCache::store(hash, seat, card)
CcStore ==
    /\ tables.stores < MaxStores
    /\ \E hash \in CcHashes, seat \in CcSeats, card \in CcCards :
          tables' = [tables EXCEPT
                        !.op = "store", !.stores = @ + 1,
                        !.call = [hash |-> hash, seat |-> seat, card |-> card],
                        !.cbefore = tables.cc,
                        !.cc = CutoffStore(@, hash, seat, card),
                        !.last[<<hash, seat>>] = card]
    /\ UNCHANGED <<switches, pc, solver, partial_trick, caches, op, ns_tricks, panicked,
                   mtdf, deal, pbn, entry, follow, par, computed>>
\* CutoffCache::new(CcBits)
CcNew ==
    /\ tables.stores > 0
    /\ tables' = TablesIdle
    /\ UNCHANGED <<switches, pc, solver, partial_trick, caches, op, ns_tricks, panicked,
                   mtdf, deal, pbn, entry, follow, par, computed>>
CcNext ==
    \/ CcStore
    \/ CcNew
CcSpec == Init /\ [][CcNext]_vars

\* ------------------------------------------------------------------------
\* The bridge-solver binary: parsing a deal, solving it for the twenty
\* contracts, writing the table, and process_pbn block by block
\* ------------------------------------------------------------------------
\* the hand strings of one card
ShortHandStrs == {<<"A", ".", ".", ".">>, <<"K", ".", ".", ".">>, <<".", "A", ".", ".">>, <<".", "K", ".", ".">>}
\* other hand strings: two cards; ten written 1, a small letter and the void
\* marker; a character that is no rank; an empty hand
OtherHandStrs == <<<<".", ".", "A", "K", ".">>, <<"1", "q", ".", "-", ".", "2", ".">>, <<"A", ".", "x", ".", ".">>, <<".", ".", ".">>>>
NumOtherHandStrs == 3
\* the deal of test_hands_from_pbn and test_hands_parsing
TestDeal ==
    <<<<"A", "K", "Q", "T", "3", ".", "J", "6", ".", "K", "J", "4", "2", ".", "9", "5">>, <<"6", "5", "2", ".", "A", "K", "4", "2", ".", "A", "Q", "8", "7", ".", "T", "4">>, <<"J", "7", "4", ".", "Q", "T", "9", "5", ".", "T", ".", "A", "K", "8", "6", "3">>, <<"9", "8", ".", "8", "7", "3", ".", "9", "6", "5", "3", ".", "Q", "J", "7", "2">>>>
\* the sequences of hand strings: four of one card; those with one of the
\* other hand strings in one place; the test deal; three and five hands
HandLists ==
    [1 .. 4 -> ShortHandStrs] \cup
    {[<<<<"A", ".", ".", ".">>, <<"K", ".", ".", ".">>, <<".", "A", ".", ".">>, <<".", "K", ".", ".">>>> EXCEPT ![k] = OtherHandStrs[i]] :
        k \in 1 .. 4, i \in 1 .. NumOtherHandStrs} \cup
    {TestDeal, SubSeq(TestDeal, 1, 3), TestDeal \o <<<<"A", ".", ".", ".">>>>}
\* the first-seat prefixes: none, three seats, and a letter that is no seat
Prefixes == {<<>>, <<"N", ":">>, <<"W", ":">>, <<"e", ":">>, <<"X", ":">>}
\* the deal string: the prefix and the hand strings with a space between
DealString(prefix, hand_strs) ==
    prefix \o concat([k \in 1 .. Len(hand_strs) |->
                         IF k = 1 THEN hand_strs[k] ELSE <<" ">> \o hand_strs[k]])
\* the tables encoded: every entry is base but one, which is any count
\* from 0 to 13
DdTables ==
    {[decl \in DeclIdxs |-> [denom \in DenomIdxs |->
         IF decl = d /\ denom = n THEN v ELSE base]] :
        d \in DeclIdxs, n \in DenomIdxs, v \in 0 .. TOTAL_TRICKS, base \in {0, 9, TOTAL_TRICKS}}
\* cards of a deal that solve_deal is followed on
MaxSolveCards == 5
\* no two hands hold the same card
Disjoint(hands) ==
    \A s1 \in Seats : \A s2 \in Seats : s1 # s2 => hands[s1] \cap hands[s2] = {}

\* Hands::from_pbn(s), the first call of a run
FromPbn ==
    /\ deal.op = "idle"
    /\ pbn.pc = "idle"
    /\ \E prefix \in Prefixes, hand_strs \in HandLists :
          deal' = [op |-> "from_pbn", prefix |-> prefix, hand_strs |-> hand_strs,
                   parsed |-> from_pbn(DealString(prefix, hand_strs)),
                   results |-> NoDdResults, ddt |-> <<>>]
    /\ UNCHANGED <<switches, pc, solver, partial_trick, caches, op, ns_tricks, panicked,
                   mtdf, pbn, entry, tables, follow, par, computed>>
\* solve_deal(&hands) on the hands parsed
SolveDeal ==
    /\ deal.op = "from_pbn"
    /\ deal.parsed.some
    /\ Disjoint(deal.parsed.hands)
    /\ size(all_cards(deal.parsed.hands)) <= MaxSolveCards
    /\ deal' = [deal EXCEPT !.op = "solve_deal", !.results = solve_deal(deal.parsed.hands)]
    /\ UNCHANGED <<switches, pc, solver, partial_trick, caches, op, ns_tricks, panicked,
                   mtdf, pbn, entry, tables, follow, par, computed>>
\* results.encode_ddt() on the table solve_deal returned or, as the first
\* call of a run, on a table of DdTables
EncodeDdt ==
    /\ deal.op \in {"idle", "solve_deal"}
    /\ pbn.pc = "idle"
    /\ \E tricks \in IF deal.op = "idle" THEN DdTables
                      ELSE IF deal.results.panic \/ deal.results.overflow THEN {}
                      ELSE {deal.results.tricks} :
          \E results \in {[some |-> TRUE, panic |-> FALSE, overflow |-> FALSE,
                            tricks |-> tricks]} :
             deal' = [deal EXCEPT !.op = "encode_ddt", !.results = results,
                                  !.ddt = encode_ddt(results)]
    /\ UNCHANGED <<switches, pc, solver, partial_trick, caches, op, ns_tricks, panicked,
                   mtdf, pbn, entry, tables, follow, par, computed>>
\* the blocks the files are made of, each with what it is: a block without
\* a Deal tag ("no_deal"), with a deal string that Hands::from_pbn rejects
\* ("rejected"), or with a deal ("deal")
BlockList ==
    << [kind |-> "no_deal", lines |-> <<<<"[", "E", "v", "e", "n", "t", " ", "\"", "x", "\"", "]">>, <<"%", " ", "n", "o", "t", "e">>>>],
       [kind |-> "rejected",
        lines |-> <<<<"[", "D", "e", "a", "l", " ", "\"", "N", ":", "A", ".", ".", ".", " ", "K", ".", ".", ".", " ", ".", "A", ".", ".", "\"", "]">>,
                    <<"[", "D", "o", "u", "b", "l", "e", "D", "u", "m", "m", "y", "T", "r", "i", "c", "k", "s", " ", "\"", "0", "0", "0", "0", "0", "0", "0", "0", "0", "0", "0", "0", "0", "0", "0", "0", "0", "0", "0", "0", "\"", "]">>>>],
       [kind |-> "deal",
        lines |-> <<<<"[", "B", "o", "a", "r", "d", " ", "\"", "1", "\"", "]">>, <<"[", "D", "e", "a", "l", " ", "\"", "N", ":", "A", ".", ".", ".", " ", "K", ".", ".", ".", " ", ".", "A", ".", ".", " ", ".", "K", ".", ".", "\"", "]">>,
                    <<"[", "R", "e", "s", "u", "l", "t", " ", "\"", "1", "\"", "]">>, <<"[", "Z", "e", "t", "a", " ", "\"", "z", "\"", "]">>>>],
       [kind |-> "no_deal", lines |-> <<<<"{", " ", "a", " ", "[", "R", "e", "s", "u", "l", "t", " ", "\"", "1", "\"", "]">>, <<>>, <<" ", " ", "b", " ", "}", " ", " ">>>>],
       [kind |-> "deal", lines |-> <<<<"[", "D", "e", "a", "l", " ", "\"", "W", ":", "A", ".", ".", ".", " ", "K", ".", ".", ".", " ", ".", "A", ".", ".", " ", ".", ".", "A", "K", ".", "\"", "]">>>>],
       [kind |-> "rejected",
        lines |-> <<<<" ", " ", "[", "D", "e", "a", "l", " ", "\"", "N", ":", "A", ".", "x", ".", ".", " ", "K", ".", ".", ".", " ", ".", "A", ".", ".", " ", ".", "K", ".", ".", "\"", "]">>, <<"[", "R", "e", "s", "u", "l", "t", " ", "\"", "1", "\"", "]">>,
                    <<"[", "O", "p", "t", "i", "m", "u", "m", "R", "e", "s", "u", "l", "t", "T", "a", "b", "l", "e", " ", "\"", "\"", "]">>, <<"N", " ", "N", "T", " ", " ", "1">>>>],
       [kind |-> "deal",
        lines |-> <<<<"[", "D", "e", "a", "l", " ", "\"", "W", ":", ".", "K", ".", ".", " ", "A", ".", ".", ".", " ", "K", ".", ".", ".", " ", ".", "A", ".", ".", "\"", "]">>, <<"[", "O", "p", "t", "i", "m", "u", "m", "R", "e", "s", "u", "l", "t", "T", "a", "b", "l", "e", " ", "\"", "x", "\"", "]">>,
                    <<"N", " ", "N", "T", " ", " ", "1">>, <<"S", " ", " ", "S", " ", "+", "0">>, <<"E", " ", "H", " ", "2", "5", "6">>, <<"[", "P", "a", "r", "C", "o", "n", "t", "r", "a", "c", "t", " ", "\"", "\"", "]">>>>],
       [kind |-> "no_deal", lines |-> <<<<"[", "D", "e", "a", "l", " ", "\"", "\"", "]">>, <<"[", "D", "e", "a", "l", " ", "x">>>>],
       [kind |-> "no_deal", lines |-> <<<<"[", "D", "e", "a", "l", "e", "r", " ", "\"", "N", "\"", "]">>>>] >>
NumBlockKinds == 8
\* the files: one block or two
PbnFiles ==
    {<<a>> : a \in 1 .. NumBlockKinds} \cup
    {<<a, b>> : a \in 1 .. NumBlockKinds, b \in 1 .. NumBlockKinds}
\* how a file is written: the line ending, the blank lines before the first
\* block, the line between two blocks, and the end of the file after the
\* last line
Styles ==
    { [eol |-> <<"\n">>, lead |-> <<>>, sep |-> <<>>, end |-> <<"\n">>],
      [eol |-> <<"\r", "\n">>, lead |-> <<"\r", "\n">>, sep |-> <<>>, end |-> <<"\r", "\n", "\r", "\n", " ", "\r", "\n">>],
      [eol |-> <<"\n">>, lead |-> <<" ", "\n", "\n">>, sep |-> <<" ", "\t">>, end |-> <<>>] }
\* the text of a file
JoinLines(ls, eol) ==
    concat([k \in 1 .. Len(ls) |-> IF k = 1 THEN ls[k] ELSE eol \o ls[k]])
Content(file, style) ==
    style.lead
    \o concat([k \in 1 .. Len(file) |->
                  (IF k = 1 THEN <<>> ELSE style.eol \o style.sep \o style.eol)
                  \o JoinLines(BlockList[file[k]].lines, style.eol)])
    \o style.end

\* process_pbn(content, verbose) is called, in a build with or without
\* overflow checks: the first call of a run, up to the loop
PbnStart ==
    /\ pbn.pc = "idle"
    /\ deal.op = "idle"
    /\ \E file \in PbnFiles, style \in Styles, overflow_checks \in BOOLEAN :
          pbn' = [pc |-> "loop", overflow_checks |-> overflow_checks, file |-> file,
                  lines |-> lines(Content(file, style)), i |-> 0, result |-> <<>>,
                  deal_count |-> 0, blocks |-> <<>>]
    /\ UNCHANGED <<switches, pc, solver, partial_trick, caches, op, ns_tricks, panicked,
                   mtdf, deal, entry, tables, follow, par, computed>>
\* one turn of the loop over the blocks: the blank lines are pushed, the
\* block is collected and process_deal_block is called on it
PbnBlock ==
    /\ pbn.pc = "loop"
    /\ pbn.i < Len(pbn.lines)
    /\ \E block_start \in {SkipBlank(pbn.lines, pbn.i)} :
       \E skipped \in {pbn.result \o PushLines(SubSeq(pbn.lines, pbn.i + 1, block_start))} :
          IF block_start >= Len(pbn.lines)
          THEN pbn' = [pbn EXCEPT !.pc = "done", !.i = block_start, !.result = skipped]
          ELSE \E block_end \in {BlockEnd(pbn.lines, block_start, FALSE)} :
               \E block_lines \in {SubSeq(pbn.lines, block_start + 1, block_end)} :
               \E p \in {process_deal_block(block_lines, pbn.deal_count,
                                            pbn.overflow_checks)} :
                  pbn' = [pbn EXCEPT
                            !.pc = IF p.panic THEN "panic" ELSE "loop",
                            !.i = block_end,
                            !.result = IF p.panic THEN @ ELSE skipped \o p.out,
                            !.deal_count = p.deal_count,
                            !.blocks = Append(@, [block_lines |-> block_lines,
                                                  processed |-> p.out, path |-> p.path,
                                                  counted |-> p.deal_count - pbn.deal_count,
                                                  panic |-> p.panic])]
    /\ UNCHANGED <<switches, pc, solver, partial_trick, caches, op, ns_tricks, panicked,
                   mtdf, deal, entry, tables, follow, par, computed>>
\* the loop over the blocks ends and process_pbn returns result
PbnReturn ==
    /\ pbn.pc = "loop"
    /\ pbn.i >= Len(pbn.lines)
    /\ pbn' = [pbn EXCEPT !.pc = "done"]
    /\ UNCHANGED <<switches, pc, solver, partial_trick, caches, op, ns_tricks, panicked,
                   mtdf, deal, entry, tables, follow, par, computed>>
PbnNext ==
    \/ FromPbn
    \/ SolveDeal
    \/ EncodeDdt
    \/ PbnStart
    \/ PbnBlock
    \/ PbnReturn
PbnSpec == Init /\ [][PbnNext]_vars

\* ------------------------------------------------------------------------
\* Properties
\* ------------------------------------------------------------------------
SolveOps == {"solve", "solve_with_caches", "solve_mid_trick"}
\* the last call was a solve and it returned a value
Returned == op \in SolveOps /\ ~panicked
\* the last solve ran on caches nothing had been stored in
OnFreshCaches == op = "solve" \/ (op \in SolveOps /\ Len(cache_uses) = 1)
\* all four hands hold the same number of cards
EqualSizes(hands) == \A s \in Seats : size(hands[s]) = size(hands[WEST])
\* the solver holds a deal, or a deal after the cards of its partial trick
\* were played from it
IsPosition == EqualSizes(solver.hands) \/ op = "solve_mid_trick"
\* the seat to play after the partial trick
NextToPlay ==
    IF partial_trick = <<>> THEN solver.initial_leader
    ELSE next_seat(partial_trick[Len(partial_trick)].seat)
\* the value the last solve returns on fresh caches under the given switches
FreshValue(flags) ==
    LET r == solve_with_caches_and_partial(solver, FreshCutoffCache, FreshPatternCache,
                 IF op = "solve_mid_trick" THEN partial_trick ELSE <<>>, flags)
    IN  IF r.panic THEN NoResult ELSE r.lower

\* C1: on a deal whose four hands hold the same number n >= 1 of cards,
\* Solver::solve returns the double-dummy value of the deal for the trump
\* and the opening leader of the solver.
C1_SolveIsDoubleDummy ==
    (op = "solve" /\ EqualSizes(solver.hands) /\ size(solver.hands[WEST]) >= 1)
    => /\ ~panicked
       /\ ns_tricks = DoubleDummy(solver.hands, solver.trump, <<>>, solver.initial_leader)
\* solve has returned one of the two tricks of a deal in a suit contract
C1_Witness ==
    /\ op = "solve" /\ ~panicked
    /\ EqualSizes(solver.hands) /\ size(solver.hands[WEST]) = 2
    /\ solver.trump < NOTRUMP
    /\ ns_tricks = 1

\* C2: whatever the caches held, a value returned by solve, solve_with_caches
\* or solve_mid_trick is at least 0 and at most the largest hand size.
C2_ReturnedInRange ==
    Returned => 0 <= ns_tricks /\ ns_tricks <= MaxHandSize(solver.hands)
\* solve_with_caches has returned every trick to North-South on caches an
\* earlier solve with another trump had filled
C2_Witness ==
    /\ op = "solve_with_caches" /\ ~panicked
    /\ Len(cache_uses) = 2
    /\ cache_uses[1].trump # solver.trump
    /\ ns_tricks = MaxHandSize(solver.hands)
    /\ ns_tricks >= 2

\* C3: new_mid_trick returns None exactly for a partial trick of 0 plays or
\* of 4 or more, a solver for 1, 2 or 3 plays, and where there is no solver
\* no solve has run.
C3_MidTrickValidation ==
    /\ op = "new_mid_trick"
       => (solver.some <=> Len(partial_trick) \in 1 .. 3)
    /\ ~solver.some => op \notin SolveOps /\ ns_tricks = NoResult /\ ~panicked
\* new_mid_trick has returned None for a complete trick of four plays
C3_Witness ==
    /\ op = "new_mid_trick"
    /\ Len(partial_trick) = 4
    /\ ~solver.some

\* C4: after k = 1, 2 or 3 legal plays to the first trick of a deal,
\* solve_mid_trick on the hands left and that partial trick returns the
\* minimax value of the node reached by those plays.
C4_MidTrickIsNodeValue ==
    op = "solve_mid_trick"
    => /\ ~panicked
       /\ ns_tricks = DoubleDummy(solver.hands, solver.trump, partial_trick, NextToPlay)
\* solve_mid_trick has returned a trick to North-South after three plays,
\* the last seat holding one card more than the others
C4_Witness ==
    /\ op = "solve_mid_trick" /\ ~panicked
    /\ Len(partial_trick) = 3
    /\ size(solver.hands[NextToPlay]) = size(solver.hands[solver.initial_leader]) + 1
    /\ ns_tricks = 1

\* every earlier solve on the caches in hand had the hands and the trump of
\* the solver
SameHandsAndTrump ==
    \A i \in 1 .. Len(cache_uses) :
        cache_uses[i].hands = solver.hands /\ cache_uses[i].trump = solver.trump

\* C5: solve_with_caches returns the value it returns on fresh caches,
\* whatever earlier solves left in the caches passed in.
C5_CacheIndependent ==
    (op = "solve_with_caches" /\ ~panicked) => ns_tricks = FreshValue(Flags)

C7_NoTTSameValue ==
    (Returned /\ OnFreshCaches /\ IsPosition /\ ~NO_TT)
    => ns_tricks = FreshValue([Flags EXCEPT !.no_tt = TRUE])
\* a solve of a deal of two tricks with the switch clear has left entries
\* in both caches
C7_Witness ==
    /\ op = "solve_with_caches" /\ ~panicked
    /\ Len(cache_uses) = 1 /\ ~NO_TT
    /\ EqualSizes(solver.hands) /\ size(solver.hands[WEST]) = 2
    /\ cutoff_cache # FreshCutoffCache
    /\ pattern_cache # FreshPatternCache

\* C8: the value returned with the no-pruning switch clear is the value
\* returned with it set.
C8_NoPruningSameValue ==
    (Returned /\ OnFreshCaches /\ IsPosition /\ ~NO_PRUNING)
    => ns_tricks = FreshValue([Flags EXCEPT !.no_pruning = TRUE])
\* a solve of a deal of two tricks has returned with pruning as the only
\* optimisation in use
C8_Witness ==
    /\ op = "solve" /\ ~panicked
    /\ ~NO_PRUNING /\ NO_TT /\ NO_RANK_SKIP
    /\ EqualSizes(solver.hands) /\ size(solver.hands[WEST]) = 2

\* C9: the value returned with the no-rank-skip switch clear is the value
\* returned with it set.
C9_NoRankSkipSameValue ==
    (Returned /\ OnFreshCaches /\ IsPosition /\ ~NO_RANK_SKIP)
    => ns_tricks = FreshValue([Flags EXCEPT !.no_rank_skip = TRUE])
\* a solve of a deal of two tricks has returned with the rank skip as the
\* only optimisation in use
C9_Witness ==
    /\ op = "solve" /\ ~panicked
    /\ ~NO_RANK_SKIP /\ NO_TT /\ NO_PRUNING
    /\ EqualSizes(solver.hands) /\ size(solver.hands[WEST]) = 2

\* C10: every solve on a constructed solver returns a value: it does not
\* panic.
C10_SolveIsTotal == ~panicked

\* C13: the trick count of a solver built by Solver::new, which is
\* Hands::num_tricks and the upper limit of the result, is the largest of the
\* four hand sizes, also when the hands have different sizes.
C13_NumTricksIsMax ==
    (op = "new" /\ solver.some) => solver.num_tricks = MaxHandSize(solver.hands)


\* a search of the loop has returned without a panic
SearchReturned == mtdf.pc = "loop" /\ mtdf.m.betas # <<>>
\* C16: when Search::search(beta) returns, and whenever a recursive
\* play-a-card step of it has returned, the four hands are the hands the call
\* started with: every play_card_and_search of the search returned with the
\* hands it was called with, and the hands of the MTD(f) loop are still the
\* hands of the solver.
C16_HandsRestored ==
    SearchReturned => (mtdf.m.restored /\ mtdf.m.hands = solver.hands)
\* a search that played cards (more nodes than iterations) has returned
C16_Witness ==
    /\ SearchReturned
    /\ mtdf.m.nodes > Len(mtdf.m.betas) + 2
    /\ size(solver.hands[WEST]) = 2
    /\ mtdf.m.restored /\ mtdf.m.hands = solver.hands

\* C17: the MTD(f) loop always terminates, and when it terminates lower =
\* upper, which is the value it returns.
C17_MtdfTerminates ==
    /\ (mtdf.pc = "loop") ~> (mtdf.pc = "returned")
    /\ []((mtdf.pc = "returned" /\ op \in SolveOps)
             => (mtdf.m.lower = mtdf.m.upper /\ ns_tricks = mtdf.m.lower))

\* the step is an iteration of the loop
IsIteration == mtdf.pc = "loop" /\ mtdf'.pc # "returned"
\* C18: in every iteration of the MTD(f) loop the beta chosen satisfies
\* lower < beta <= upper (hence 1 <= beta <= num_tricks), an iteration whose
\* search returns makes upper - lower strictly smaller, and one solve runs at
\* most num_tricks searches.
C18_MtdfNarrows ==
    [][IsIteration =>
         LET beta == mtdf'.m.betas[Len(mtdf'.m.betas)]
         IN  /\ mtdf.m.lower < beta /\ beta <= mtdf.m.upper
             /\ 1 <= beta /\ beta <= solver.num_tricks
             /\ Len(mtdf'.m.betas) = Len(mtdf.m.betas) + 1
             /\ Len(mtdf'.m.betas) <= solver.num_tricks
             /\ mtdf'.pc = "loop" =>
                   mtdf'.m.upper - mtdf'.m.lower < mtdf.m.upper - mtdf.m.lower]_vars
\* the first search failed low and a second iteration, with a smaller beta,
\* has been made
C18_Witness ==
    /\ mtdf.pc = "loop"
    /\ Len(mtdf.m.betas) = 2
    /\ mtdf.m.betas[2] < mtdf.m.betas[1]

\* the nodes of a pattern tree
RECURSIVE Nodes(_)
Nodes(p) == {p} \cup UNION {Nodes(p.children[i]) : i \in 1 .. Len(p.children)}
\* C19: Pattern::update never widens stored bounds: every node that is in
\* the tree of the entry before and after an update call has, after the call,
\* a lower bound no smaller and an upper bound no larger than before.
C19_BoundsNeverWiden ==
    entry.op = "update" =>
        \A old \in Nodes(entry.before) : \A new \in Nodes(entry.pattern) :
            old.id = new.id =>
                (new.bounds.lower >= old.bounds.lower /\ new.bounds.upper <= old.bounds.upper)
\* an update call has narrowed the bounds of a node that was in the tree
C19_Witness ==
    /\ entry.op = "update"
    /\ \E old \in Nodes(entry.before) : \E new \in Nodes(entry.pattern) :
          /\ old.id = new.id
          /\ old.id # 0
          /\ new.bounds.lower > old.bounds.lower

\* C20: after any sequence of Pattern::update calls on a shape entry, the
\* children of every node are pairwise incomparable: no child is a subset of,
\* or has hands equal to, one of its siblings.
C20_SiblingsIncomparable ==
    \A p \in Nodes(entry.pattern) :
        \A i \in 1 .. Len(p.children) : \A j \in 1 .. Len(p.children) :
            i # j => ~is_subset_of(p.children[i], p.children[j])

\* the sum of the four declarer values of a denomination
DenomSum(tricks, denom) ==
    tricks[0][denom] + tricks[1][denom] + tricks[2][denom] + tricks[3][denom]
\* the tricks of North-South under double-dummy play when the left-hand
\* opponent of the declarer leads
LeadValue(hands, decl, denom) ==
    DoubleDummy(hands, Denominations[denom + 1], <<>>, next_seat(Declarers[decl + 1]))
\* solve_deal was called on four hands of the same size, at least one card
SolvedDeal ==
    /\ deal.op = "solve_deal"
    /\ EqualSizes(deal.parsed.hands)
    /\ size(deal.parsed.hands[WEST]) >= 1
RankChars == <<"2", "3", "4", "5", "6", "7", "8", "9", "T", "J", "Q", "K", "A">>
RankCharsLower == <<"2", "3", "4", "5", "6", "7", "8", "9", "t", "j", "q", "k", "a">>
\* the cards a hand string names: the character at position i names a card
\* of the suit given by the number of dots before it
NamedCards(h) ==
    {card_of(Cardinality({j \in 1 .. p[1] : h[j] = "."}), p[2]) :
        p \in {q \in (1 .. Len(h)) \X (TWO .. ACE) :
                  \/ h[q[1]] \in {RankChars[q[2] + 1], RankCharsLower[q[2] + 1]}
                  \/ h[q[1]] = "1" /\ q[2] = TEN}}
\* the seat a prefix names, North when there is none
FirstSeat(prefix) ==
    IF prefix = <<>> THEN NORTH
    ELSE IndexIn(prefix[1], <<"W", "N", "E", "S">>) + IndexIn(prefix[1], <<"w", "n", "e", "s">>) - 1
\* from_pbn returned Some(hands)
Parsed == deal.op = "from_pbn" /\ deal.parsed.some
\* C12 as the specification states it: whenever Hands::from_pbn returns
\* successfully, the four hands hold 52 distinct cards and each seat holds
\* exactly 13 cards.
C12_ParsedIsFullDeal ==
    Parsed =>
        /\ size(all_cards(deal.parsed.hands)) = TOTAL_CARDS
        /\ \A seat \in Seats : size(deal.parsed.hands[seat]) = TOTAL_TRICKS
\* C12, amended: whenever Hands::from_pbn returns successfully, the k-th
\* hand string has gone to the seat k - 1 places clockwise from the first
\* seat (the seat of the prefix, North without one), and each seat holds
\* exactly the cards its hand string names; the hands are 52 distinct cards,
\* 13 to a seat, only if the string names such a deal.
C12_ParsedHoldsNamedCards ==
    Parsed =>
        /\ Len(deal.hand_strs) = 4
        /\ \A k \in 1 .. 4 :
            deal.parsed.hands[(FirstSeat(deal.prefix) + k - 1) % NUM_SEATS]
                = NamedCards(deal.hand_strs[k])
\* the 52-card deal of the tests is parsed, West first
C12_Witness ==
    /\ Parsed
    /\ deal.prefix = <<"W", ":">>
    /\ size(all_cards(deal.parsed.hands)) = TOTAL_CARDS
    /\ \A seat \in Seats : size(deal.parsed.hands[seat]) = TOTAL_TRICKS

\* the characters of 0 .. 13 tricks
DdtChars == <<"0", "1", "2", "3", "4", "5", "6", "7", "8", "9", "a", "b", "c", "d">>
\* the table a DoubleDummyTricks string of 20 characters stands for
DecodeDdt(s) ==
    [decl \in DeclIdxs |-> [denom \in DenomIdxs |->
        IndexIn(s[5 * decl + denom + 1], DdtChars) - 1]]
\* C14: encode_ddt writes, at position 5 * declarer + denomination, '0'..'9'
\* for 0..9 tricks and 'a'..'d' for 10..13 tricks; the string has 20
\* characters and decoding it gives back the table, so two different
\* tables never give the same string.
C14_DdtRoundTrip ==
    deal.op = "encode_ddt" =>
        /\ Len(deal.ddt) = 20
        /\ \A decl \in DeclIdxs : \A denom \in DenomIdxs :
              deal.ddt[5 * decl + denom + 1] = DdtChars[deal.results.tricks[decl][denom] + 1]
        /\ DecodeDdt(deal.ddt) = deal.results.tricks
\* a table with 13 tricks for West in clubs, its last entry, and 9 tricks
\* elsewhere is encoded
C14_Witness ==
    /\ deal.op = "encode_ddt"
    /\ deal.results.tricks[3][4] = TOTAL_TRICKS
    /\ deal.results.tricks[0][0] = 9
    /\ deal.ddt[20] = "d"

\* the blocks of the file that have no Deal tag or a rejected deal string
BadBlocks == {k \in 1 .. Len(pbn.file) : BlockList[pbn.file[k]].kind # "deal"}
\* the lines as they are emitted unchanged
Emitted(ls) == concat([k \in 1 .. Len(ls) |-> ls[k] \o <<"\n">>])
\* C15: a block that contains no Deal tag, or whose deal string
\* Hands::from_pbn rejects, is emitted with all of its lines unchanged and
\* in the same order and is not counted as a deal, and all other blocks of
\* the same file are still processed: the run does not stop before the last
\* block, every block is collected as it was written, and the deals are
\* counted.
C15_BadBlockPassesThrough ==
    (pbn.pc # "idle" /\ BadBlocks # {}) =>
        /\ \A k \in 1 .. Len(pbn.blocks) :
              /\ pbn.blocks[k].block_lines = BlockList[pbn.file[k]].lines
              /\ k \in BadBlocks =>
                    /\ pbn.blocks[k].processed = Emitted(BlockList[pbn.file[k]].lines)
                    /\ pbn.blocks[k].counted = 0
        /\ pbn.pc # "panic"
        /\ pbn.pc = "done" =>
              /\ Len(pbn.blocks) = Len(pbn.file)
              /\ pbn.deal_count = Len(pbn.file) - Cardinality(BadBlocks)

\* The bounds stored are sound: the positions of the shape have values such
\* that every pattern stored with bounds holds, within those bounds, the value
\* of every position that matches it (a position matches a pattern when each
\* seat holds the cards of the pattern).
SoundBounds == entry.sound
\* the bounds of a child lie within the bounds of its parent and differ from them
StrictlyTighter(child, parent) ==
    /\ child.bounds.lower >= parent.bounds.lower
    /\ child.bounds.upper <= parent.bounds.upper
    /\ child.bounds # parent.bounds
C22_ChildIsSubset ==
    \A p \in Nodes(entry.pattern) : \A i \in 1 .. Len(p.children) :
        \A seat \in Seats : p.hands[seat] \subseteq p.children[i].hands[seat]
\* the last update call has put a more general pattern above two patterns
\* that were children of the root
C22_Witness ==
    /\ entry.op = "update"
    /\ \E p \in Nodes(entry.pattern) :
          /\ p.id = entry.updates
          /\ Len(p.children) = 2
          /\ \A i \in 1 .. 2 : p.children[i].hands # p.hands

\* the log of the last search of the MTD(f) loop
SearchLog == mtdf.m.log
\* the nodes of a pattern tree, each with the nodes above it, the root first
RECURSIVE Paths(_, _)
Paths(p, above) ==
    {[node |-> p, above |-> above]} \cup
        UNION {Paths(p.children[i], Append(above, p)) : i \in 1 .. Len(p.children)}
\* the hands include the hands of other, seat by seat
Includes(hands, other) == \A seat \in Seats : other[seat] \subseteq hands[seat]
\* the pattern-cache lookups of the log that matched
Hits == {i \in 1 .. Len(SearchLog) : SearchLog[i].kind = "hit"}
\* the nodes of the tree looked up that are the match of hit record h
Matches(h) ==
    {x \in Paths(h.tree, <<>>) :
        x.node.hands = h.hit.hands /\ x.node.bounds = h.hit.bounds}
\* C23: a pattern-cache lookup at a trick start matches only a stored pattern
\* P of the entry's tree such that the probe is a subset of P and of every
\* node above P, and P's bounds cut off at beta - ns_tricks_won; on a match
\* the node returns at once, without searching: ns_tricks_won + lower when
\* that is at least beta, and ns_tricks_won + upper otherwise.
C23_HitIsStoredCutoff ==
    \A i \in Hits :
        LET h == SearchLog[i]
            rel_beta == h.beta - h.ns_tricks_won
            adj_lower == h.ns_tricks_won + h.hit.bounds.lower
            adj_upper == h.ns_tricks_won + h.hit.bounds.upper
        IN  /\ \E x \in Matches(h) :
                  /\ Includes(h.probe, x.node.hands)
                  /\ \A k \in 1 .. Len(x.above) : Includes(h.probe, x.above[k].hands)
                  /\ (x.node.bounds.lower >= rel_beta \/ x.node.bounds.upper < rel_beta)
            /\ i < Len(SearchLog)
            /\ SearchLog[i + 1].kind = "return"
            /\ SearchLog[i + 1].depth = h.depth
            /\ SearchLog[i + 1].value = (IF adj_lower >= h.beta THEN adj_lower ELSE adj_upper)
\* below a trick already played, a lookup matched a pattern below the root of
\* a tree that also holds patterns the probe is no subset of, and the node
\* returned ns_tricks_won + lower
C23_Witness ==
    \E i \in Hits :
        /\ SearchLog[i].depth > 0
        /\ \A x \in Matches(SearchLog[i]) : x.above # <<>>
        /\ \E x \in Paths(SearchLog[i].tree, <<>>) :
               ~Includes(SearchLog[i].probe, x.node.hands)
        /\ SearchLog[i].ns_tricks_won + SearchLog[i].hit.bounds.lower >= SearchLog[i].beta
        /\ SearchLog[i + 1].kind = "return"
        /\ SearchLog[i + 1].value =
               SearchLog[i].ns_tricks_won + SearchLog[i].hit.bounds.lower

\* the slot of the pattern cache the last call was made for, and the slots
PcSlot == PatternIndex(tables.pcache, PatternHash(tables.key.shape, tables.key.seat))
PcSlots == 0 .. tables.pcache.mask
\* the (shape, seat) pairs whose hash the slot held before the call
Resident ==
    {k \in PcKeys : PatternHash(k.shape, k.seat) = ShapeEntryAt(tables.pbefore, PcSlot).hash}
\* the call found another hash in its slot
TakesOver ==
    ShapeEntryAt(tables.pbefore, PcSlot).hash # PatternHash(tables.key.shape, tables.key.seat)
\* C24: PatternCache::get_or_create on a slot that holds another hash
\* discards the whole tree of the slot (no children, root bounds 0..13) and
\* takes the slot over, after which a lookup of the (shape, seat) that was
\* there returns None; on the same hash the tree is left as it was; no
\* other slot changes.
C24_GetOrCreateEvicts ==
    tables.op = "get_or_create" =>
        /\ ShapeEntryAt(tables.pcache, PcSlot).hash =
               PatternHash(tables.key.shape, tables.key.seat)
        /\ TakesOver =>
               /\ ShapeEntryAt(tables.pcache, PcSlot).pattern.children = <<>>
               /\ ShapeEntryAt(tables.pcache, PcSlot).pattern.bounds =
                      [lower |-> 0, upper |-> 13]
               /\ \A k \in Resident :
                      ~PatternCacheLookup(tables.pcache, k.shape, k.seat).found
        /\ ~TakesOver =>
               ShapeEntryAt(tables.pcache, PcSlot) = ShapeEntryAt(tables.pbefore, PcSlot)
        /\ \A idx \in PcSlots \ {PcSlot} :
               ShapeEntryAt(tables.pcache, idx) = ShapeEntryAt(tables.pbefore, idx)
\* get_or_create took over a slot that held the tree of another (shape, seat),
\* with a pattern below its root, while the other slot held a tree too
C24_Witness ==
    /\ tables.op = "get_or_create"
    /\ TakesOver
    /\ Resident # {}
    /\ ShapeEntryAt(tables.pbefore, PcSlot).pattern.children # <<>>
    /\ \E idx \in PcSlots \ {PcSlot} :
           ShapeEntryAt(tables.pbefore, idx).pattern.children # <<>>
    /\ ShapeEntryAt(tables.pcache, PcSlot).pattern = DefaultPattern
\* get_or_create found the hash of its own (shape, seat) and a tree with a
\* pattern below the root
C24_WitnessSame ==
    /\ tables.op = "get_or_create"
    /\ ~TakesOver
    /\ ShapeEntryAt(tables.pcache, PcSlot).pattern.children # <<>>


\* C25: after any sequence of stores with non-zero hashes, resizes included,
\* CutoffCache::lookup(h, s) returns the card of the latest store for
\* exactly (h, s), and None when there was no such store; a store for one
\* seat changes what is returned for no other seat of the hash and for no
\* other hash.
C25_LookupReturnsLatestStore ==
    /\ \A h \in CcHashes : \A s \in Seats :
           CutoffLookup(tables.cc, h, s) = tables.last[<<h, s>>]
    /\ tables.op = "store" =>
           \A h \in CcHashes : \A s \in Seats :
               (h # tables.call.hash \/ s # tables.call.seat) =>
                   CutoffLookup(tables.cc, h, s) = CutoffLookup(tables.cbefore, h, s)
\* the slots of a cutoff cache, and those that hold a hash
CcSlots(cache) == 0 .. cache.mask
Loaded(cache) == {idx \in CcSlots(cache) : CutoffEntryAt(cache, idx).hash # Zero64}
\* after its second resize, with an entry away from the slot of its hash, a
\* store replaced the card of a (hash, seat)
C25_Witness ==
    /\ tables.op = "store"
    /\ tables.cc.bits = CcBits + 2
    /\ tables.cbefore.bits = CcBits + 1
    /\ \E idx \in Loaded(tables.cc) :
           CutoffIndex(tables.cc, CutoffEntryAt(tables.cc, idx).hash) # idx
    /\ CutoffLookup(tables.cbefore, tables.call.hash, tables.call.seat)
           \notin {NoCard, tables.call.card}
    /\ CutoffLookup(tables.cc, tables.call.hash, tables.call.seat) = tables.call.card

\* load_count counts the slots that hold a hash, and a slot is empty
WellLoaded(cache) ==
    /\ cache.load_count = Cardinality(Loaded(cache))
    /\ cache.load_count < cache.mask + 1
    /\ \E idx \in CcSlots(cache) : CutoffEntryAt(cache, idx).hash = Zero64
\* resize() from step k of its loops over the slots and the seats of the old
\* table on, cache being the new table so far: the new table at the end, and
\* whether every table on the way was well loaded
RECURSIVE Reinserted(_, _, _)
Reinserted(old, cache, k) ==
    IF k >= 4 * (old.mask + 1) THEN [cache |-> cache, ok |-> WellLoaded(cache)]
    ELSE LET e == CutoffEntryAt(old, k \div 4)
             seat == k % 4
             next == Reinserted(old,
                                IF e.hash # Zero64 /\ e.card[seat] # NoCard
                                THEN CutoffStore(cache, e.hash, seat, e.card[seat])
                                ELSE cache,
                                k + 1)
         IN  [cache |-> next.cache, ok |-> next.ok /\ WellLoaded(cache)]
\* the last store resized the table
Resized == tables.op = "store" /\ tables.cc.bits > tables.cbefore.bits
\* C26: load_count of the cutoff cache is the number of slots that hold a
\* non-zero hash, and after a store it is at most three quarters of the
\* table size; the table always has an empty slot, also while resize()
\* stores the old entries again, so the probe loop of store ends.
C26_LoadBounded ==
    /\ WellLoaded(tables.cc)
    /\ 4 * tables.cc.load_count <= 3 * (tables.cc.mask + 1)
    /\ Resized =>
           LET r == Reinserted(tables.cbefore, NewCutoffCache(tables.cbefore.bits + 1), 0)
           IN  r.ok /\ r.cache = CutoffResize(tables.cbefore)
\* a store resized a table of four slots that held three hashes, and the
\* table of eight slots holds four
C26_Witness ==
    /\ Resized
    /\ tables.cbefore.mask = 3
    /\ tables.cbefore.load_count = 3
    /\ tables.cc.mask = 7
    /\ tables.cc.load_count = 4
    /\ Cardinality(Loaded(tables.cc)) = 4


\* the trick starts of the log
TrickStarts == {i \in 1 .. Len(SearchLog) : SearchLog[i].kind = "trick_start"}
\* C27: at every trick start at a depth d > 0 that the search reaches, the
\* seat to play is the seat that played the winning card of the trick before
\* (the highest trump played or, when no trump was played, the highest card
\* of the suit led), and ns_tricks_won is the count before that trick plus
\* one when that seat is North or South, plus zero otherwise.
C27_WinnerLeadsNextTrick ==
    \A i \in TrickStarts :
        LET r == SearchLog[i]
            winner == TrickWinner(r.trick, r.trump)
        IN  /\ r.seat_to_play = winner
            /\ r.ns_tricks_won = r.before + (IF is_ns(winner) THEN 1 ELSE 0)
\* a trick that North or South won with a trump on a lead of another suit
C27_Witness ==
    \E i \in TrickStarts :
        LET r == SearchLog[i]
        IN  /\ r.trump < NOTRUMP
            /\ suit_of(r.trick[1].card) # r.trump
            /\ \E k \in 2 .. 4 : /\ suit_of(r.trick[k].card) = r.trump
                                 /\ r.trick[k].seat = r.seat_to_play
            /\ is_ns(r.seat_to_play)
            /\ r.ns_tricks_won = r.before + 1

\* the cards played of the log, and the cards of the position the search
\* started from: the hands and the cards of the partial trick
CardsPlayed == {i \in 1 .. Len(SearchLog) : SearchLog[i].kind = "play"}
StartCards ==
    all_cards(solver.hands) \cup {partial_trick[i].card : i \in 1 .. Len(partial_trick)}
\* C28: at every node of a search, the card played is taken from the hand of
\* the seat to play and follows the suit led whenever that seat holds a card
\* of it; the four hands stay pairwise disjoint, and the hands together with
\* the cards played so far are exactly the cards the search started with.
C28_PlaysAreLegal ==
    SearchReturned => \A i \in CardsPlayed :
        LET r == SearchLog[i]
        IN  /\ r.card \in r.hand
            /\ r.hands[r.seat] = r.hand \ {r.card}
            /\ \A s \in Seats \ {r.seat} : r.card \notin r.hands[s]
            /\ (r.depth % 4 # 0 /\ \E c \in r.hand : suit_of(c) = suit_of(r.led)) =>
                   suit_of(r.card) = suit_of(r.led)
            /\ \A a \in Seats : \A b \in Seats \ {a} : r.hands[a] \cap r.hands[b] = {}
            /\ UNION {r.hands[s] : s \in Seats} \cup r.played = StartCards
\* a search from a partial trick played a card of another suit from a hand
\* without the suit led, and followed suit from a hand that also held
\* another suit
C28_Witness ==
    /\ SearchReturned
    /\ partial_trick # <<>>
    /\ \E i \in CardsPlayed :
           LET r == SearchLog[i]
           IN  /\ suit_of(r.card) # suit_of(r.led)
               /\ r.card \in r.hand
               /\ UNION {r.hands[s] : s \in Seats} \cup r.played = StartCards
    /\ \E i \in CardsPlayed :
           LET r == SearchLog[i]
           IN  /\ r.depth % 4 # 0
               /\ suit_of(r.card) = suit_of(r.led)
               /\ \E c \in r.hand : suit_of(c) # suit_of(r.led)

\* the returns of the nodes and the pattern-cache stores of the log
Returns == {i \in 1 .. Len(SearchLog) : SearchLog[i].kind = "return"}
Stores == {i \in 1 .. Len(SearchLog) : SearchLog[i].kind = "store"}
\* C29: the value a search node returns is at least the ns_tricks_won of the
\* node and at most ns_tricks_won plus the tricks remaining at it, whichever
\* return statement it returns by; so the relative trick count
\* result - ns_tricks_won stored in the pattern cache does not underflow and
\* the bounds stored lie within 0 .. tricks remaining.
C29_ValuesInRange ==
    /\ \A i \in Returns :
           /\ SearchLog[i].ns_tricks_won <= SearchLog[i].value
           /\ SearchLog[i].value <= SearchLog[i].ns_tricks_won + SearchLog[i].remaining
    /\ \A i \in Stores :
           /\ SearchLog[i].relative_tricks >= 0
           /\ 0 <= SearchLog[i].bounds.lower
           /\ SearchLog[i].bounds.lower <= SearchLog[i].remaining
           /\ 0 <= SearchLog[i].bounds.upper
           /\ SearchLog[i].bounds.upper <= SearchLog[i].remaining

\* some node of the log returned by the return statement named
ReturnedBy(way) == \E i \in Returns : SearchLog[i].way = way
\* one search had nodes return by pruning, by a pattern-cache hit, by a
\* cutoff, after a full evaluation and from the last trick, one of them with
\* a value strictly inside its range, and stored bounds below the first trick
C29_Witness ==
    /\ ReturnedBy("pruning") /\ ReturnedBy("hit") /\ ReturnedBy("cutoff")
    /\ ReturnedBy("full") /\ ReturnedBy("last_trick")
    /\ \E i \in Returns :
           /\ SearchLog[i].ns_tricks_won < SearchLog[i].value
           /\ SearchLog[i].value < SearchLog[i].ns_tricks_won + SearchLog[i].remaining
    /\ \E i \in Stores : SearchLog[i].depth > 0
\* a node that starts a trick after North-South won one returned by the
\* quick bound ns_tricks_won >= beta
C29_WitnessQuick ==
    \E i \in Returns : SearchLog[i].way = "quick_high" /\ SearchLog[i].ns_tricks_won > 0

\* the cards evaluated of the log, and those that reached the cutoff
\* condition of their node
Evaluations == {i \in 1 .. Len(SearchLog) : SearchLog[i].kind = "eval"}
Cutoffs ==
    {i \in Evaluations :
        IF is_ns(SearchLog[i].seat) THEN SearchLog[i].best >= SearchLog[i].beta
        ELSE SearchLog[i].best < SearchLog[i].beta}
\* C30: as soon as a card evaluated at a node makes the best value reach
\* beta at a North-South node (best >= beta) or fall below beta at an
\* East-West node (best < beta), the node returns that best value at once,
\* no later candidate being evaluated; and unless NO_TT is set, a lookup in
\* the cutoff cache under the hash and the seat of the node right after the
\* return gives that card.
C30_CutoffReturnsAtOnce ==
    \A i \in Cutoffs :
        LET r == SearchLog[i]
            stores == i < Len(SearchLog) /\ SearchLog[i + 1].kind = "store"
                          /\ SearchLog[i + 1].depth = r.depth
            j == IF stores THEN i + 2 ELSE i + 1
        IN  /\ \A k \in Evaluations : k > i => SearchLog[k].node # r.node
            /\ j <= Len(SearchLog)
            /\ SearchLog[j].kind = "return"
            /\ SearchLog[j].depth = r.depth
            /\ SearchLog[j].value = r.best
            /\ ~r.no_tt => r.lookup = r.card
\* a North-South node returned on a card it evaluated after another, its best
\* value being beta, and the cutoff cache gives that card
C30_Witness ==
    \E i \in Cutoffs : \E k \in Evaluations :
        /\ k < i
        /\ SearchLog[k].node = SearchLog[i].node
        /\ ~SearchLog[i].no_tt
        /\ SearchLog[i].lookup = SearchLog[i].card
        /\ SearchLog[i].best = SearchLog[i].beta
        /\ is_ns(SearchLog[i].seat)

\* the records of the log of the loops that ended, and the cards of a
\* sequence
Orders == {i \in 1 .. Len(SearchLog) : SearchLog[i].kind = "order"}
CardsOf(seq) == {seq[k] : k \in 1 .. Len(seq)}
\* seq holds every card of cards once and no other card
HoldsOnce(seq, cards) == Len(seq) = Cardinality(cards) /\ CardsOf(seq) = cards
\* the candidates of the node of a record start with the card the cutoff
\* cache held for the node, if that card is playable
CachedFirst(r) == r.cached \in r.playable => r.ordered # <<>> /\ r.ordered[1] = r.cached
\* the candidates of every card evaluated: the cached card alone while the
\* first candidate is processed, then the playable cards once each
CandidatesWhileEvaluated ==
    \A i \in Evaluations :
        LET e == SearchLog[i]
        IN  /\ CachedFirst(e)
            /\ e.card = e.ordered[e.i + 1]
            /\ Len(e.ordered) <= TOTAL_TRICKS
            /\ IF e.i = 0 /\ e.cached \in e.playable
               THEN e.ordered = <<e.cached>>
               ELSE HoldsOnce(e.ordered, e.playable)
\* the candidates of every loop that ended without a cutoff
CandidatesAtEnd ==
    \A i \in Orders :
        LET o == SearchLog[i]
        IN  o.panic \/ (/\ CachedFirst(o)
                        /\ Len(o.ordered) <= TOTAL_TRICKS
                        /\ HoldsOnce(o.ordered, o.playable))
\* C31: at each node the candidates are first the card remembered in the
\* cutoff cache for the hash and the seat of the node, if it is playable,
\* then (appended once the first candidate has been processed) the ordering
\* of the remaining playable cards; the whole sequence holds every playable
\* card exactly once and no other card, and never more than 13 entries:
\* no node fails to hold its playable cards in the sequence.
C31_CandidatesArePlayable ==
    /\ CandidatesWhileEvaluated
    /\ CandidatesAtEnd
    /\ \A i \in Orders : ~SearchLog[i].panic
\* C31 for the nodes whose sequence could be built
C31_CandidatesUnlessOverflow == CandidatesWhileEvaluated /\ CandidatesAtEnd
\* a node went through the cached card and then the ordering of two more
\* playable cards without a cutoff
C31_Witness ==
    \E i \in Orders :
        /\ ~SearchLog[i].panic
        /\ SearchLog[i].cached \in SearchLog[i].playable
        /\ Len(SearchLog[i].ordered) >= 3
\* the playable cards of a node are more than the sequence can hold
C31_WitnessOverflow ==
    \E i \in Orders : SearchLog[i].panic /\ Cardinality(SearchLog[i].playable) > TOTAL_TRICKS

\* the cards of the log that were searched without a cutoff
Searched == Evaluations \ Cutoffs
\* the cards a node evaluated after the record i of the log
LaterAtNode(i) == {k \in Evaluations : k > i /\ SearchLog[k].node = SearchLog[i].node}
\* C32 as claimed: after a card of suit s was searched at a node without a
\* cutoff, min_relevant_ranks[s] is NUM_RANKS if the rank winners returned
\* hold no card of suit s, and otherwise the rank of the lowest rank winner
\* of suit s returned.
C32_MinRankIsLowestWinner ==
    \A i \in Searched :
        LET e == SearchLog[i]
        IN  e.new_min = IF e.suit_rank_winners = {} THEN NUM_RANKS
                        ELSE rank_of(bottom(e.suit_rank_winners))
\* C32 amended: after a card of suit s was searched at a node without a
\* cutoff, min_relevant_ranks[s] is NUM_RANKS if the rank winners returned
\* hold no card of suit s (and the node then searches no further card of
\* suit s, unless NO_RANK_SKIP is set); otherwise, if the card searched is
\* lower than the lowest rank winner of suit s returned, it is the larger of
\* its value before and the rank of that winner, and else it keeps its value.
\* No card below it is searched later at the node, unless NO_RANK_SKIP is set.
C32_MinRankRaisedByLowerCard ==
    \A i \in Searched :
        LET e == SearchLog[i]
            bottom_rank == rank_of(bottom(e.suit_rank_winners))
        IN  /\ e.new_min = IF e.suit_rank_winners = {} THEN NUM_RANKS
                           ELSE IF rank_of(e.card) < bottom_rank
                           THEN Max(e.old_min, bottom_rank)
                           ELSE e.old_min
            /\ \A k \in LaterAtNode(i) :
                  suit_of(SearchLog[k].card) = suit_of(e.card) /\ ~e.no_rank_skip
                      => rank_of(SearchLog[k].card) >= e.new_min
            /\ \A k \in LaterAtNode(i) :
                  /\ suit_of(SearchLog[k].card) = suit_of(e.card)
                  /\ \A j \in LaterAtNode(i) :
                        j < k => suit_of(SearchLog[j].card) # suit_of(e.card)
                  => SearchLog[k].old_min = e.new_min
\* a card lower than the lowest rank winner of its suit was searched and
\* raised min_relevant_ranks of the suit, and the node went on to search
\* another card of the suit; and a card not lower than the rank winners of
\* its suit was searched and left min_relevant_ranks as it was
C32_Witness ==
    /\ \E i \in Searched :
          /\ SearchLog[i].suit_rank_winners # {}
          /\ rank_of(SearchLog[i].card) < rank_of(bottom(SearchLog[i].suit_rank_winners))
          /\ SearchLog[i].new_min > SearchLog[i].old_min
          /\ \E k \in LaterAtNode(i) : suit_of(SearchLog[k].card) = suit_of(SearchLog[i].card)
    /\ \E i \in Searched :
          /\ SearchLog[i].suit_rank_winners # {}
          /\ rank_of(SearchLog[i].card) >= rank_of(bottom(SearchLog[i].suit_rank_winners))
          /\ SearchLog[i].new_min = SearchLog[i].old_min

\* the cards of the log that were skipped because is_equivalent returned
\* true
Equivalents == {i \in 1 .. Len(SearchLog) : SearchLog[i].kind = "skip" /\ SearchLog[i].equivalent}
\* the double-dummy value of playing the card at the position of the record
PlayValue(r, card) ==
    DoubleDummy([r.hands EXCEPT ![r.seat] = @ \ {card}], r.trump,
                Append(r.trick, [card |-> card, seat |-> r.seat]), next_seat(r.seat))
\* the double-dummy values of the cards the seat of the record may play
PlayValues(r) == {PlayValue(r, card) : card \in LegalCards(r.hands, r.seat, r.trick)}
\* C33: whenever is_equivalent returns true for a candidate card at a node,
\* the double-dummy value of playing that card is the double-dummy value of
\* playing the tried card of the same suit that produced the match.
C33_EquivalentCardsSameValue ==
    \A i \in Equivalents :
        LET r == SearchLog[i]
        IN  /\ r.tried \in r.hands[r.seat]
            /\ suit_of(r.tried) = suit_of(r.card)
            /\ PlayValue(r, r.card) = PlayValue(r, r.tried)
\* a card was skipped as equivalent to a tried card at a node where the
\* cards of that suit do not all have the same value
C33_Witness ==
    \E i \in Equivalents :
        LET r == SearchLog[i]
        IN  \E card \in suit(r.hands[r.seat], suit_of(r.card)) :
               /\ card \in LegalCards(r.hands, r.seat, r.trick)
               /\ PlayValue(r, card) # PlayValue(r, r.card)

\* get_node_count() after the last solve had it been made on fresh caches
\* under the given switches
FreshNodes(flags) ==
    solve_with_caches_and_partial(solver, FreshCutoffCache, FreshPatternCache,
        IF op = "solve_mid_trick" THEN partial_trick ELSE <<>>, flags).nodes
\* a solve returned with the no-rank-skip switch clear
SolvedWithRankSkip == Returned /\ OnFreshCaches /\ ~NO_RANK_SKIP
FollowTrumps == IF follow.trump < NOTRUMP THEN suit(follow.playable, follow.trump) ELSE {}
RuffBeforeLho ==
    LET lead_suit == suit_of(follow.trick[1].card)
        winner == follow.trick[follow.winning_play + 1]
        lho_hand == follow.hands[left_hand_opp(follow.seat)]
    IN  /\ follow.op = "order_follows"
        /\ suit(follow.playable, lead_suit) = {}
        /\ FollowTrumps # {}
        /\ winner.seat # partner(follow.seat)
        /\ suit_of(winner.card) # follow.trump
        /\ Len(follow.trick) < NUM_SEATS - 1
        /\ suit(lho_hand, lead_suit) = {}
        /\ suit(lho_hand, follow.trump) # {}
\* the first cards of the output are the trumps of the seat
TrumpsFirst ==
    /\ ~follow.panic
    /\ Len(follow.ordered) >= size(FollowTrumps)
    /\ {follow.ordered[k] : k \in 1 .. size(FollowTrumps)} = FollowTrumps
\* C35: in the case RuffBeforeLho the output of order_follows lists all the
\* trumps of the player from the highest to the lowest before any discard.
C35_TrumpsHighFirst ==
    RuffBeforeLho =>
        /\ TrumpsFirst
        /\ \A j, k \in 1 .. size(FollowTrumps) :
              j < k => higher_rank(follow.ordered[j], follow.ordered[k])
\* what order_follows does in the case RuffBeforeLho: the trumps come first,
\* from the lowest to the highest
C35_TrumpsLowFirst ==
    RuffBeforeLho =>
        /\ TrumpsFirst
        /\ \A j, k \in 1 .. size(FollowTrumps) :
              j < k => lower_rank(follow.ordered[j], follow.ordered[k])
\* order_follows was called in the case RuffBeforeLho for a seat that holds
\* two trumps and a card to discard
C35_Witness ==
    /\ RuffBeforeLho
    /\ size(FollowTrumps) = 2
    /\ size(follow.playable) = 3

\* the depths search_with_cache was called with in the last search: the depth
\* the search starts at and the depth after every card played.  Every index
\* of plays is one of them or a smaller one (depth, depth - 1, winning_play,
\* the plays of the previous trick), every index of tricks is depth / 4 or
\* the one before.
Plays == {i \in 1 .. Len(SearchLog) : SearchLog[i].kind = "play"}
SearchDepths == {Len(partial_trick)} \cup {SearchLog[i].depth + 1 : i \in Plays}
DepthsInArrays ==
    \A d \in SearchDepths :
       /\ d <= 4 * MaxHandSize(solver.hands)
       /\ d \in Depths
       /\ d \div 4 \in TrickIdxs
\* the last search was made for the solver and the partial trick of the state
SearchOfSolver == mtdf.pc \in {"loop", "panic"} \/ (mtdf.pc = "returned" /\ op \in SolveOps)
\* C36: in every solve, from the start of a deal or of a trick under way,
\* 4 * num_tricks is at most 52, the depth of the search never exceeds it,
\* and every depth indexes plays within 0 .. 51 and tricks within 0 .. 12.
C36_DepthWithinArrays ==
    SearchOfSolver =>
        /\ 4 * MaxHandSize(solver.hands) <= TOTAL_CARDS
        /\ DepthsInArrays
\* the depths stay within 4 * num_tricks and within the arrays in every
\* search, also when a hand holds more than TOTAL_TRICKS cards
C36_DepthsWithinTricks == SearchOfSolver => DepthsInArrays
\* a search of a deal of three tricks reached its last trick, and a search
\* that started in the middle of a trick went on to the next trick
C36_Witness ==
    /\ SearchOfSolver
    /\ MaxHandSize(solver.hands) <= TOTAL_TRICKS
    /\ \/ 4 * (MaxHandSize(solver.hands) - 1) \in SearchDepths /\ MaxHandSize(solver.hands) >= 3
       \/ partial_trick # <<>> /\ 4 \in SearchDepths
\* the search of a hand of more than TOTAL_TRICKS cards
C36_WitnessOverflow == mtdf.pc = "panic" /\ MaxHandSize(solver.hands) > TOTAL_TRICKS

TricksConsulted ==
    {i \in 1 .. Len(SearchLog) : SearchLog[i].kind = "trick" /\ SearchLog[i].consulted}
\* C38: at every trick start at which the search consults the pattern cache,
\* in a solve of a deal or of a trick under way, tricks[t].shape is
\* Shape::from_hands of the hands there and tricks[t].relative_hands is
\* RelativeHands::compute of these hands against all the cards they hold,
\* though after the first trick both are updated from the trick before.
C38_TrickShapeAndRelativeHands ==
    \A i \in TricksConsulted :
       LET r == SearchLog[i]
       IN  /\ r.all_cards = all_cards(r.hands)
           /\ r.shape = ShapeFromHands(r.hands)
           /\ r.relative_hands = RelativeCompute(EmptyHands, r.hands, r.all_cards, 0)
\* the previous trick of a consulted trick start took cards of two suits, in
\* a solve of a deal; and a consulted trick start follows the trick a solve
\* started in the middle of
C38_Witness ==
    \/ /\ partial_trick = <<>>
       /\ \E i \in TricksConsulted :
             /\ SearchLog[i].depth > 0
             /\ \E c, d \in AllCards \ SearchLog[i].all_cards :
                   /\ suit_of(c) # suit_of(d)
                   /\ \E j \in TricksConsulted :
                         /\ j < i
                         /\ SearchLog[j].depth = SearchLog[i].depth - 4
                         /\ {c, d} \subseteq SearchLog[j].all_cards
    \/ /\ partial_trick # <<>>
       /\ SearchOfSolver
       /\ \E i \in TricksConsulted : SearchLog[i].depth = 4

\* the cards of the set are the highest cards of their suits among all
TopOfSuits(cards, all) ==
    \A c \in cards : \A d \in all : (suit_of(d) = suit_of(c) /\ higher_rank(d, c)) => d \in cards
\* in each suit the extended rank winners are the k highest remaining cards
\* for some k, and the pattern hands are the relative hands restricted to
\* the relative cards of the extended rank winners
ExtendedAreTopCards(r) ==
    /\ r.extended_rank_winners \subseteq r.all_cards
    /\ TopOfSuits(r.extended_rank_winners, r.all_cards)
    /\ r.pattern_hands =
          [seat \in Seats |->
              r.relative_hands[seat] \cap
                  {relative_card_in_suit(c, suit(r.all_cards, suit_of(c)))
                     : c \in r.extended_rank_winners}]
\* C39: for the relative hands and remaining cards of a position and rank
\* winners among the remaining cards, the extended rank winners that
\* compute_pattern_hands returns contain every rank winner given, and in
\* each suit they are the k highest remaining cards for some k, the pattern
\* hands being the relative hands restricted to them.
C39_ExtendedContainRankWinners ==
    computed.op = "compute_pattern_hands" =>
        /\ computed.rank_winners \subseteq computed.extended_rank_winners
        /\ ExtendedAreTopCards(computed)
\* the second part alone holds of every call
C39_ExtendedAreTopCards ==
    computed.op = "compute_pattern_hands" => ExtendedAreTopCards(computed)

====
